---- MODULE Spec2Model ----
(***************************************************************************)
(* Model of the grid-resolution, capacity and FCFS-lock engine of the OA   *)
(* schedule chatbot (src/oa_app): the lock ledger (locks.py), the add and   *)
(* remove handlers (chat_add.py, chat_remove.py), the hours aggregator      *)
(* (hours.py) and the cross-tab schedule view (schedule_query.py).          *)
(*                                                                          *)
(* Grids are sequences of rows of cell texts.  The code indexes rows and   *)
(* columns from 0 and the store (gspread) from 1; the operators below take  *)
(* the code's 0-based indices and Cell/SetCell translate.                   *)
(* Clock times are minutes counted from midnight of the request's date, so  *)
(* an end rolled past midnight is 1440 or more.                             *)
(***************************************************************************)
EXTENDS Integers, Sequences, FiniteSets, TLC

VARIABLES
    store,      \* the shared workbook: tab kind -> grid
    ledger,     \* the _Locks sheet below its header row: sequence of entries
    clock,      \* wall-clock time in seconds
    cache,      \* per session: WS_RANGE_CACHE, tab kind -> grid last read
    last,       \* the handler run that ended last: request, outcome, what it saw
    prev,       \* the handler run before that one
    ops,        \* number of handler runs so far
    acq,        \* per actor: the acquire_fcfs_lock call in progress
    calls,      \* finished acquire_fcfs_lock calls (observation)
    epoch,      \* per session: st.session_state["HOURS_EPOCH"]
    day_cache,  \* per session: DAY_CACHE, the day columns of UNH and MC last read
    metric,     \* per session: the sidebar metric as last computed
    run         \* per session: the handle_add call in progress, step by step

\* the session state outside the range cache
session == <<epoch, day_cache, metric, run>>

vars == <<store, ledger, clock, cache, last, prev, ops, acq, calls, epoch, day_cache, metric, run>>

----------------------------------------------------------------------------
(* Bounds of the model *)

MaxOps == 2
MaxClock == 180
MaxCalls == 3
LockMaxClock == 135

(* Program constants *)

TTL_SEC == 90
PER_SLOT_CAP == 2
WEEK_CAP_MIN == 1200
DAY_CAP_MIN == 480
REROUTE_MIN == 180
HEADER_SCAN_ROWS == 25
BLOCK_SCAN_UP == 8
WEEKDAY_WEIGHT_MIN == 300
WEEKEND_WEIGHT_MIN == 240
HOURS_HEADER_ROWS == 10
DAY_CACHE_TTL_SEC == 20
RETRY_429 == 5
BATCH_GET_RETRIES == 4

\* The clock advances by a whole TTL between handler runs, and by half a
\* TTL between the steps of acquire calls.
TickSec == TTL_SEC
LockTick == TTL_SEC \div 2

----------------------------------------------------------------------------
(* People, sessions, tabs *)

Persons == {"Ann", "Bob"}          \* roster members who use the chatbot
AllNames == Persons \cup {"Joann"} \* names that occur in cells
Actors == Persons                  \* one session per user; actor = sidebar name
LockActors == {"Ann", "Bob", "Cy"}

Kinds == {"UNH", "MC", "ONCALL"}
None == "none"
Nil == 0 - 1

\* Worksheet titles of the workbook, in tab order: UNH, MC, then the On-Call
\* tab as MC's right-hand neighbour.
Title(kind) ==
    CASE kind = "UNH" -> "UNH (OA and GOAs)"
      [] kind = "MC" -> "MC (OA and GOAs)"
      [] OTHER -> "On Call 9/7-9/13"

Min(S) == CHOOSE x \in S : \A y \in S : x <= y
Max(S) == CHOOSE x \in S : \A y \in S : x >= y

----------------------------------------------------------------------------
(* Time formatting and parsing *)

Pad2(n) == IF n < 10 THEN "0" \o ToString(n) ELSE ToString(n)

Hour12(m) == IF ((m \div 60) % 24) % 12 = 0 THEN 12 ELSE ((m \div 60) % 24) % 12

AmPm(m) == IF (m \div 60) % 24 < 12 THEN "AM" ELSE "PM"

\* dt.strftime("%I:%M %p")
Strf12(m) == Pad2(Hour12(m)) \o ":" \o Pad2(m % 60) \o " " \o AmPm(m)

\* dt.strftime("%I:%M %p").lstrip("0")
fmt_time(m) == ToString(Hour12(m)) \o ":" \o Pad2(m % 60) \o " " \o AmPm(m)

ClockMinutes == {30 * k : k \in 0..47}

\* the two spellings of each half-hour of the day
FmtTable == [m \in ClockMinutes |-> fmt_time(m)]

StrfTable == [m \in ClockMinutes |-> Strf12(m)]

TimeTexts == {FmtTable[m] : m \in ClockMinutes} \cup {StrfTable[m] : m \in ClockMinutes}

\* strptime(s, "%I:%M %p") of each spelling
ParseTable ==
    [v \in TimeTexts |-> CHOOSE m \in ClockMinutes : FmtTable[m] = v \/ StrfTable[m] = v]

\* _TIME_CELL_RE.match(s) and _parse_time_cell(s): the minute of day of a
\* cell that is a clock time ("9:00 AM" or "09:00 AM"), else Nil
_parse_time_cell(v) == IF v \in TimeTexts THEN ParseTable[v] ELSE Nil

RangeLabel(s, e) == fmt_time(s) \o " - " \o fmt_time(e)

\* boundaries of the On-Call blocks that label the modelled sheets
BlockTimes == {420, 660, 960, 1260}

RangeTable == [p \in BlockTimes \X BlockTimes |-> RangeLabel(p[1], p[2])]

RangeTexts == {RangeTable[p] : p \in BlockTimes \X BlockTimes}

RangeParse == [v \in RangeTexts |-> CHOOSE p \in BlockTimes \X BlockTimes : RangeTable[p] = v]

\* _RANGE_RE.match(s) with both groups parsed: <<start, end>> minutes of a
\* "start - end" label, else <<Nil, Nil>>
_RANGE_RE(v) == IF v \in RangeTexts THEN RangeParse[v] ELSE <<Nil, Nil>>

IsRange(v) == _RANGE_RE(v)[1] # Nil

OALabel(p) == "OA: " \o p

----------------------------------------------------------------------------
(* Cell text classification.  The modelled texts carry no surrounding      *)
(* white space, so strip() is the identity on them.                         *)

\* chat_add._is_blankish (the code's set also holds the en and em dash and
\* the middle dot)
_is_blankish(v) == v \in {"", "-", ".", "n/a", "N/A"}

\* name.lower() in other.lower(), for the names of the model
SubstrLower == {<<"Ann", "Ann">>, <<"Ann", "Joann">>, <<"Bob", "Bob">>,
                <<"Joann", "Joann">>}

\* schedule_query._cell_has_name: case-insensitive substring match
_cell_has_name(v, name) ==
    \E q \in AllNames : v = OALabel(q) /\ <<name, q>> \in SubstrLower

\* chat_remove: `v and canon_target_name.lower() in str(v).lower()`
RemoveMatches(v, name) ==
    v # "" /\ \E q \in AllNames : v = OALabel(q) /\ <<name, q>> \in SubstrLower

\* hours._cell_mentions_person: the cell, or one of its parts split on
\* separators, equals the name once the role prefix is stripped and the
\* text is lower-cased (no modelled cell holds a separator)
_cell_mentions_person(v, name) == v = OALabel(name)

\* chat_add._canon_input_day: alias table, then unambiguous prefix
_canon_input_day(d) ==
    CASE d = "mon" -> "monday"
      [] d = "tue" -> "tuesday"
      [] d = "sat" -> "saturday"
      [] d = "satur" -> "saturday"
      [] OTHER -> None

\* chat_add._canon_day_loose: a weekday name heading the cell
_canon_day_loose(v) ==
    CASE v = "Monday" -> "monday"
      [] v = "Tuesday" -> "tuesday"
      [] v = "Monday, 9/8" -> "monday"
      [] v = "Saturday, 9/13" -> "saturday"
      [] OTHER -> None

\* chat_add._weekday_from_dateish: dateutil's fuzzy parse with the default
\* date 2000-01-01, a Saturday: a bare clock time parses to that date.
\* Texts without any date or time token do not parse.  A range label never
\* decides a column of the modelled sheets (its own column's weekday is
\* found first), so it is taken not to parse.
_weekday_from_dateish(v) ==
    IF v = "" \/ _canon_day_loose(v) # None THEN None
    ELSE IF _parse_time_cell(v) # Nil THEN "saturday"
    ELSE None

OrDay(a, b) == IF a # None THEN a ELSE b

\* _canon_day_loose(val) or _weekday_from_dateish(val)
DayLike(v) == OrDay(_canon_day_loose(v), _weekday_from_dateish(v))

\* hours._normalize_day: some word of the cell is a weekday alias
_normalize_day(v) ==
    CASE v \in {"Monday", "Monday, 9/8"} -> "monday"
      [] v = "Tuesday" -> "tuesday"
      [] v = "Saturday, 9/13" -> "saturday"
      [] OTHER -> None

\* schedule_query._canon_day_from_header (row 0 only)
_canon_day_from_header(v) == _canon_day_loose(v)

----------------------------------------------------------------------------
(* Grid access.  A read returns each row without its trailing blanks; the  *)
(* code reads every cell with a bounds check that yields "" past a row's    *)
(* end, and each modelled tab ends with a label row, so rows are kept at    *)
(* full width.                                                              *)

NCols(grid) == IF grid = <<>> THEN 0 ELSE Max({Len(grid[i]) : i \in 1..Len(grid)})

\* grid[r][c] if r < len(grid) and c < len(grid[r]) else ""
Cell(grid, r, c) ==
    IF r >= 0 /\ r < Len(grid) /\ c >= 0 /\ c < Len(grid[r + 1])
    THEN grid[r + 1][c + 1] ELSE ""

\* ws.update_cell(r + 1, c + 1, v)
SetCell(grid, r, c, v) ==
    IF r >= 0 /\ r < Len(grid) /\ c >= 0 /\ c < Len(grid[r + 1])
    THEN [grid EXCEPT ![r + 1][c + 1] = v] ELSE grid

MinOr(S, d) == IF S = {} THEN d ELSE Min(S)

\* row-major order of cell positions
Before(p, q) == p[1] < q[1] \/ (p[1] = q[1] /\ p[2] <= q[2])

First(P) == CHOOSE p \in P : \A q \in P : Before(p, q)

FirstColOr(P, d) == IF P = {} THEN d ELSE First(P)[2]

Positions(R, C) == (0..(R - 1)) \X (0..(C - 1))

----------------------------------------------------------------------------
(* Weekday column resolution (chat_add.py).  A day map gives, for each      *)
(* weekday, its 0-based column or Nil.                                      *)

DayNames == {"monday", "tuesday", "saturday"}

NoCols == [d \in DayNames |-> Nil]

\* cells of row 0 the first-row scan skips: empty, numeric, or holding am/pm
FirstRowSkip(v) == v = "" \/ _parse_time_cell(v) # Nil \/ IsRange(v)

FirstRowDay(v) == IF FirstRowSkip(v) THEN None ELSE DayLike(v)

_day_cols_from_first_row(grid) ==
    [d \in DayNames |->
        IF grid = <<>> THEN Nil
        ELSE MinOr({c \in 0..(Len(grid[1]) - 1) : FirstRowDay(grid[1][c + 1]) = d}, Nil)]

\* day map of one row under _canon_day_loose (first column per day)
RowDays(row) ==
    [d \in DayNames |-> MinOr({c \in 0..(Len(row) - 1) : _canon_day_loose(row[c + 1]) = d}, Nil)]

DayCount(m) == Cardinality({d \in DayNames : m[d] # Nil})

\* rows among the top 25 that name at least n weekdays (1-based)
HeaderRows(grid, n) ==
    {r \in 1..Min({HEADER_SCAN_ROWS, Len(grid)}) : DayCount(RowDays(grid[r])) >= n}

HeaderPick(grid, R2, R1) ==
    IF R2 # {} THEN RowDays(grid[Min(R2)])
    ELSE IF R1 # {} THEN RowDays(grid[Min(R1)])
    ELSE NoCols

\* first of the top 25 rows naming two or more weekdays, else the first
\* naming one
_header_day_cols(grid) == HeaderPick(grid, HeaderRows(grid, 2), HeaderRows(grid, 1))

RangeRowsOf(grid, c) == {r \in 0..(Len(grid) - 1) : IsRange(Cell(grid, r, c))}

\* walk up at most 8 rows from row r0 of column c to a weekday
WalkUp(grid, c, r0) ==
    {r \in Max({0, r0 - BLOCK_SCAN_UP})..r0 : DayLike(Cell(grid, r, c)) # None}

HeaderAbove(grid, c, S) == IF S = {} THEN None ELSE DayLike(Cell(grid, Max(S), c))

\* the weekday found above the first range label of column c
BlockHeaderDay(grid, c, rows) ==
    IF rows = {} THEN None ELSE HeaderAbove(grid, c, WalkUp(grid, c, Min(rows)))

\* per column holding a range label, the weekday above its first label; a
\* weekday goes to the first such column in order of discovery
_infer_day_cols_by_blocks(grid) ==
    [d \in DayNames |->
        FirstColOr({<<Min(RangeRowsOf(grid, c)), c>> :
                       c \in {x \in 0..(NCols(grid) - 1) :
                                 BlockHeaderDay(grid, x, RangeRowsOf(grid, x)) = d}}, Nil)]

ScanRows == 60
ScanCols == 60
FuzzyRows == 40

DayHits(grid, R, C, d) == {p \in Positions(R, C) : DayLike(Cell(grid, p[1], p[2])) = d}

\* variant: no fallback to the only weekday found
AnywherePick_strict(grid, R, C, target_day, Found) ==
    IF target_day \in Found THEN First(DayHits(grid, R, C, target_day))[2] ELSE Nil

AnywherePick(grid, R, C, target_day, Found) ==
    IF target_day \in Found THEN First(DayHits(grid, R, C, target_day))[2]
    ELSE IF Cardinality(Found) = 1 THEN First(UNION {DayHits(grid, R, C, d) : d \in Found})[2]
    ELSE Nil

AnywhereIn(grid, R, C, target_day) ==
    AnywherePick(grid, R, C, target_day, {d \in DayNames : DayHits(grid, R, C, d) # {}})

\* the first cell, in row-major order, that reads as the weekday; else the
\* column of the only weekday found at all
_find_day_col_anywhere(grid, target_day) ==
    AnywhereIn(grid, Min({ScanRows, Len(grid)}), Min({ScanCols, NCols(grid)}), target_day)

WordRows(grid, R, c, day) == {r \in 0..(R - 1) : _normalize_day(Cell(grid, r, c)) = day}

FuzzyBest(grid, R, day, Cols) ==
    {c \in Cols : \A x \in Cols :
        Cardinality(WordRows(grid, R, c, day)) >= Cardinality(WordRows(grid, R, x, day))}

FuzzyIn(grid, R, C, day) ==
    FirstColOr({<<Min(WordRows(grid, R, c, day)), c>> :
                   c \in FuzzyBest(grid, R, day,
                                   {x \in 0..(C - 1) : WordRows(grid, R, x, day) # {}})}, Nil)

\* the column with most cells holding the weekday's name or abbreviation
_find_day_col_fuzzy(grid, target_day) ==
    FuzzyIn(grid, Min({FuzzyRows, Len(grid)}), Min({ScanCols, NCols(grid)}), target_day)

OrCol(a, b) == IF a # Nil THEN a ELSE b

\* capacity tabs: header rows, then anywhere
CapacityDayCol(grid, day_canon) ==
    OrCol(_header_day_cols(grid)[day_canon], _find_day_col_anywhere(grid, day_canon))

\* On-Call tab: first row, header rows, block inference, anywhere, fuzzy
OnCallDayCol(grid, day_canon) ==
    OrCol(_day_cols_from_first_row(grid)[day_canon],
    OrCol(_header_day_cols(grid)[day_canon],
    OrCol(_infer_day_cols_by_blocks(grid)[day_canon],
    OrCol(_find_day_col_anywhere(grid, day_canon),
          _find_day_col_fuzzy(grid, day_canon)))))

----------------------------------------------------------------------------
(* Bands and blocks *)

\* rows whose column-0 cell is a clock time
_time_row_indices(grid) ==
    {r \in 0..(Len(grid) - 1) : _parse_time_cell(Cell(grid, r, 0)) # Nil}

\* <<r0, r1>>: r0 the last row of S, r1 the next time row or len(grid)
BandFrom(grid, rows, S) ==
    IF S = {} THEN <<Nil, Nil>>
    ELSE <<Max(S), MinOr({r \in rows : r > Max(S)}, Len(grid))>>

BandAt(grid, rows, label) ==
    BandFrom(grid, rows, {r \in rows : fmt_time(_parse_time_cell(Cell(grid, r, 0))) = label})

\* bands[label] = (r0, r1), or <<Nil, Nil>> when the label has no band; of
\* two time rows with one label the later one stays in the dict
_slot_bands_by_time(grid, label) == BandAt(grid, _time_row_indices(grid), label)

\* _range_to_slots: start minutes of the 30-minute ticks of [s, e)
_range_to_slots(s, e) ==
    IF e <= s THEN <<>> ELSE [i \in 1..((e - s + 29) \div 30) |-> s + 30 * (i - 1)]

\* rows r0+1 .. r1-1, in order
LaneRows(b) == IF b[2] - b[1] <= 1 THEN <<>> ELSE [i \in 1..(b[2] - b[1] - 1) |-> b[1] + i]

BlockFrom(grid, label_rows, M) ==
    IF M = {} THEN <<Nil, Nil>>
    ELSE <<Min(M), MinOr({r \in label_rows : r > Min(M)}, Len(grid))>>

\* variant: a block is matched on its start alone
BlockAt_startonly(grid, c0, label_rows, want_s, want_e) ==
    BlockFrom(grid, label_rows,
              {r \in label_rows : Strf12(_RANGE_RE(Cell(grid, r, c0))[1]) = want_s})

BlockAt(grid, c0, label_rows, want_s, want_e) ==
    BlockFrom(grid, label_rows,
              {r \in label_rows :
                  /\ Strf12(_RANGE_RE(Cell(grid, r, c0))[1]) = want_s
                  /\ Strf12(_RANGE_RE(Cell(grid, r, c0))[2]) = want_e})

\* the first block of column c0 whose label reads want_s - want_e:
\* (r_label, r_next), r_next the next label row of the column or len(grid)
_find_oncall_block_row_bounds(grid, c0, want_s, want_e) ==
    BlockAt(grid, c0, RangeRowsOf(grid, c0), want_s, want_e)

----------------------------------------------------------------------------
(* Hours (hours.py), in minutes: 0.5 h = 30, 5.0 h = 300, 4.0 h = 240 *)

RECURSIVE SumOver(_, _)
SumOver(f, S) ==
    IF S = {} THEN 0
    ELSE LET x == CHOOSE y \in S : TRUE IN f[x] + SumOver(f, S \ {x})

\* positions of the cells that mention the person
Mentions(grid, name) ==
    {p \in Positions(Len(grid), NCols(grid)) : _cell_mentions_person(Cell(grid, p[1], p[2]), name)}

\* 0.5 h per cell of the tab that mentions the person
_count_half_hour_grid(grid, name) == 30 * Cardinality(Mentions(grid, name))

DayCells(row) == Cardinality({c \in 1..Len(row) : _normalize_day(row[c]) # None})

\* first of the top 10 rows with two or more weekday cells, else Nil
_find_header_row_with_days(grid) ==
    MinOr({r \in 0..(Min({HOURS_HEADER_ROWS, Len(grid)}) - 1) : DayCells(grid[r + 1]) >= 2}, Nil)

\* variant: every column weighs as a weekday
weight_for_col_flat(h) == WEEKDAY_WEIGHT_MIN

\* weight of a mention in a column headed by text h
weight_for_col(h) ==
    IF _normalize_day(h) \in {"saturday", "sunday"} THEN WEEKEND_WEIGHT_MIN
    ELSE WEEKDAY_WEIGHT_MIN

OnCallWeights(grid, hr, M) ==
    IF hr = Nil THEN WEEKDAY_WEIGHT_MIN * Cardinality(M)
    ELSE SumOver([p \in M |-> IF p[1] > hr THEN weight_for_col(Cell(grid, hr, p[2])) ELSE 0], M)

_count_oncall_by_day_headers(grid, name) ==
    OnCallWeights(grid, _find_header_row_with_days(grid), Mentions(grid, name))

\* total over the UNH tab, the MC tab and MC's right-hand neighbour
total_hours_from_unh_mc_and_neighbor(wb, name) ==
    _count_half_hour_grid(wb["UNH"], name) + _count_half_hour_grid(wb["MC"], name)
        + _count_oncall_by_day_headers(wb["ONCALL"], name)

----------------------------------------------------------------------------
(* The person's schedule of one weekday (schedule_query.py) *)

\* datetime.strptime(s, "%I:%M %p") of a formatted clock time
ParseClock(str) == ParseTable[str]

SpanMinutes(sd, ed) == IF ed <= sd THEN ed + 1440 - sd ELSE ed - sd

\* handle_add lines 715-719: minutes of a formatted range, an end at or
\* before the start counting as next day
RangeMinutes(rg) == SpanMinutes(ParseClock(rg[1]), ParseClock(rg[2]))

\* the day's column by row 0
Row0DayCol(grid, day) ==
    IF grid = <<>> THEN Nil
    ELSE MinOr({c \in 0..(Len(grid[1]) - 1) : _canon_day_from_header(grid[1][c + 1]) = day}, Nil)

BandHasName(grid, rows, r0, c, name) ==
    \E rr \in (r0 + 1)..(MinOr({r \in rows : r > r0}, Len(grid)) - 1) :
        _cell_has_name(Cell(grid, rr, c), name)

HitStarts(grid, rows, c, name) ==
    IF c = Nil \/ c = 0 THEN {}
    ELSE {_parse_time_cell(Cell(grid, r0, 0)) : r0 \in {r \in rows : BandHasName(grid, rows, r, c, name)}}

\* start minutes of the bands of the day's column in which some lane holds
\* the name as a substring
_unh_mc_intervals(grid, name, day) ==
    HitStarts(grid, _time_row_indices(grid), Row0DayCol(grid, day), name)

\* contiguous half-hours merged into formatted (start, end) ranges
_merge_contiguous(starts) ==
    {<<fmt_time(s), fmt_time(Min({x \in {s + 30 * k : k \in 1..Cardinality(starts)} : x \notin starts}))>> :
        s \in {x \in starts : (x - 30) \notin starts}}

_unh_mc_ranges(grid, name, day) == _merge_contiguous(_unh_mc_intervals(grid, name, day))

LabelOver(grid, c, labels, r) == _RANGE_RE(Cell(grid, Max({l \in labels : l < r}), c))

FmtPair(p) == <<fmt_time(p[1]), fmt_time(p[2])>>

BlocksIn(grid, c, labels, name) ==
    IF c = Nil THEN {}
    ELSE {FmtPair(LabelOver(grid, c, labels, r)) :
             r \in {x \in 1..(Len(grid) - 1) :
                       /\ x \notin labels
                       /\ _cell_has_name(Cell(grid, x, c), name)
                       /\ \E l \in labels : l < x /\ l >= 1}}

\* the labelled blocks of the day's column under which a cell holds the name
_oncall_blocks(grid, name, day) ==
    BlocksIn(grid, Row0DayCol(grid, day), RangeRowsOf(grid, Row0DayCol(grid, day)) \ {0}, name)

TotalMinutes(S) == SumOver([rg \in S |-> RangeMinutes(rg)], S)

\* get_user_schedule(...)[day] summed as in handle_add lines 711-719
MinutesToday(wb, name, day) ==
    TotalMinutes(_unh_mc_ranges(wb["UNH"], name, day))
        + TotalMinutes(_unh_mc_ranges(wb["MC"], name, day))
        + TotalMinutes(_oncall_blocks(wb["ONCALL"], name, day))

----------------------------------------------------------------------------
(* Availability checks (chat_add.py).  A check yields its set of reasons,   *)
(* each <<label, why>>; the request is feasible when the set is empty.      *)

BlankLanes(grid, lanes, c0) ==
    {j \in 1..Len(lanes) : _is_blankish(Cell(grid, lanes[j], c0))}

\* variant: no lane counts as filled
FilledCount_blind(grid, lanes, c0) == 0

FilledCount(grid, lanes, c0) == Len(lanes) - Cardinality(BlankLanes(grid, lanes, c0))

\* variant: a band counts as full only above the cap
SlotReasonIn_gt(grid, c0, per_slot_cap, band) ==
    IF band[1] = Nil THEN "no time-row band in sheet"
    ELSE IF per_slot_cap = Nil
        THEN (IF BlankLanes(grid, LaneRows(band), c0) = {} THEN "no empty cells" ELSE "")
    ELSE IF FilledCount(grid, LaneRows(band), c0) > per_slot_cap THEN "at capacity"
    ELSE ""

SlotReasonIn(grid, c0, per_slot_cap, band) ==
    IF band[1] = Nil THEN "no time-row band in sheet"
    ELSE IF per_slot_cap = Nil
        THEN (IF BlankLanes(grid, LaneRows(band), c0) = {} THEN "no empty cells" ELSE "")
    ELSE IF FilledCount(grid, LaneRows(band), c0) >= per_slot_cap THEN "at capacity"
    ELSE ""

\* one tick of the capacity check; per_slot_cap is Nil for MC
SlotReason(grid, c0, label, per_slot_cap) ==
    SlotReasonIn(grid, c0, per_slot_cap, _slot_bands_by_time(grid, label))

CapacityReasons(grid, c0, slots, per_slot_cap) ==
    IF grid = <<>> THEN {<<"", "sheet empty">>}
    ELSE IF c0 = Nil THEN {<<"", "Could not read weekday header">>}
    ELSE {x \in {<<fmt_time(slots[i]), SlotReason(grid, c0, fmt_time(slots[i]), per_slot_cap)>> :
                    i \in 1..Len(slots)} : x[2] # ""}

_check_unh_mc_capacity_via_grid(grid, day_canon, s, e, per_slot_cap) ==
    CapacityReasons(grid, CapacityDayCol(grid, day_canon), _range_to_slots(s, e), per_slot_cap)

OnCallBlockReasons(grid, c0, b, s, e) ==
    IF b[1] = Nil THEN {<<RangeLabel(s, e), "not found">>}
    ELSE IF BlankLanes(grid, LaneRows(b), c0) = {} THEN {<<RangeLabel(s, e), "no empty cells">>}
    ELSE {}

OnCallReasons(grid, c0, s, e) ==
    IF grid = <<>> THEN {<<"", "sheet empty">>}
    ELSE IF c0 = Nil THEN {<<"", "Could not read weekday header">>}
    ELSE OnCallBlockReasons(grid, c0,
                            _find_oncall_block_row_bounds(grid, c0, Strf12(s), Strf12(e)), s, e)

_check_oncall_capacity_via_grid(grid, day_canon, s, e) ==
    OnCallReasons(grid, OnCallDayCol(grid, day_canon), s, e)

\* schedule._get_sheet builds the tab's SheetInfo: row 1 must name a weekday
SheetInfoOk(grid) == grid # <<>> /\ DayCount(RowDays(grid[1])) >= 1

----------------------------------------------------------------------------
(* Request normalisation *)

CampusHints == {"unh", "mc", "oncall"}

\* _resolve_campus_title on the workbook's three tabs
_resolve_campus_title(hint) ==
    CASE hint = "mc" -> "MC"
      [] hint = "unh" -> "UNH"
      [] OTHER -> "ONCALL"

\* variant: quarter hours let through
_is_half_hour_boundary_dt_quarter(m) == m % 15 = 0

_is_half_hour_boundary_dt(m) == m % 60 \in {0, 30}

\* variant: an end up to 6:59 is rolled
RollEnd_six(s, e) ==
    IF e > s THEN e
    ELSE IF (e \div 60) % 24 <= 6 THEN e + 1440
    ELSE Nil

\* end at or before start: rolled to the next day when its hour is 0..5,
\* else Nil (the request fails)
RollEnd(s, e) ==
    IF e > s THEN e
    ELSE IF (e \div 60) % 24 <= 5 THEN e + 1440
    ELSE Nil

----------------------------------------------------------------------------
(* The lock ledger (locks.py).  Row i of `ledger` is sheet row i + 1 of the *)
(* _Locks tab, whose row 1 is the header.                                   *)

LockRow(key, actor, ts) == [key |-> key, actor |-> actor, ts |-> ts, status |-> "pending"]

\* locks.lock_key; the handlers pass fmt_time(start) and fmt_time(end)
lock_key(ws_title, day, start_str, end_str) ==
    ws_title \o "|" \o day \o "|" \o start_str \o "-" \o end_str

\* variant: entries of any age take part
LockClaims_anyage(vals, key, cutoff) == {i \in 1..Len(vals) : vals[i].key = key}

\* variant: an entry marked "lost" takes no part
LockClaims_unlost(vals, key, cutoff) ==
    {i \in 1..Len(vals) : vals[i].key = key /\ vals[i].ts >= cutoff /\ vals[i].status # "lost"}

\* claims = rows of the read-back with the key and ts >= cutoff
LockClaims(vals, key, cutoff) ==
    {i \in 1..Len(vals) : vals[i].key = key /\ vals[i].ts >= cutoff}

LockFirst_latest(vals, key, cutoff) ==
    LET C == LockClaims(vals, key, cutoff)
    IN  IF C = {} THEN Nil
        ELSE Max({i \in C : \A j \in C : vals[i].ts >= vals[j].ts})

\* variant: among the claims with the least timestamp the last row is taken
LockFirst_lastrow(vals, key, cutoff) ==
    LET C == LockClaims(vals, key, cutoff)
    IN  IF C = {} THEN Nil
        ELSE Max({i \in C : \A j \in C : vals[i].ts <= vals[j].ts})

\* claims.sort(key=ts) is stable: claims[0] is the first row in sheet order
\* among those with the least timestamp
LockFirst(vals, key, cutoff) ==
    LET C == LockClaims(vals, key, cutoff)
    IN  IF C = {} THEN Nil
        ELSE Min({i \in C : \A j \in C : vals[i].ts <= vals[j].ts})

\* variant: the caller wins only with its newest entry
LockIsWinner_ownrow(vals, key, actor, cutoff) ==
    LET w == LockFirst(vals, key, cutoff)
    IN  w # Nil /\ w = Max({i \in 1..Len(vals) : vals[i].actor = actor} \cup {0})

\* is_winner = claims[0][1] == actor
LockIsWinner(vals, key, actor, cutoff) ==
    LET w == LockFirst(vals, key, cutoff)
    IN  w # Nil /\ vals[w].actor = actor

\* variant: the status cell of the winning row is set
LockMark_winner(led, vals, key, actor, cutoff) ==
    IF LockFirst(vals, key, cutoff) = Nil THEN led
    ELSE [led EXCEPT ![LockFirst(vals, key, cutoff)].status =
             IF LockIsWinner(vals, key, actor, cutoff) THEN "won" ELSE "lost"]

\* my_row = max(i for (i, a, _) in claims if a == actor); the status cell of
\* that row is set to "won" or "lost"; no claim of the actor: no update
LockMark(led, vals, key, actor, cutoff) ==
    LET mine == {i \in LockClaims(vals, key, cutoff) : vals[i].actor = actor}
    IN  IF mine = {} THEN led
        ELSE [led EXCEPT ![Max(mine)].status =
                 IF LockIsWinner(vals, key, actor, cutoff) THEN "won" ELSE "lost"]

\* acquire_fcfs_lock run without interruption at time `now`
acquire_fcfs_lock(led, key, actor, now, ttl_sec) ==
    LET vals == Append(led, LockRow(key, actor, now))
    IN  [won |-> LockIsWinner(vals, key, actor, now - ttl_sec),
         ledger |-> LockMark(vals, vals, key, actor, now - ttl_sec)]

LockKeys ==
    {lock_key(Title("UNH"), "monday", fmt_time(540), fmt_time(570)),
     lock_key(Title("MC"), "monday", fmt_time(540), fmt_time(570))}

\* Ann and Bob contend for the UNH slot; Cy for it or for the MC one.
KeysOf(a) ==
    IF a = "Cy" THEN LockKeys
    ELSE {lock_key(Title("UNH"), "monday", fmt_time(540), fmt_time(570))}

IdleCall == [pc |-> "idle", key |-> None, now |-> 0, row |-> 0, vals |-> <<>>]

InFlight == Cardinality({a \in LockActors : acq[a].pc # "idle"})

\* line 46: now = datetime.now(timezone.utc)
LockStamp(a, k) ==
    /\ acq[a].pc = "idle"
    /\ Cardinality(calls) + InFlight < MaxCalls
    /\ acq' = [acq EXCEPT ![a] = [IdleCall EXCEPT !.pc = "stamped", !.key = k, !.now = clock]]
    /\ UNCHANGED <<store, ledger, clock, cache, last, prev, ops, session, calls>>

\* line 47: append_row([key, actor, now, "pending", "", ""])
LockAppend(a) ==
    /\ acq[a].pc = "stamped"
    /\ ledger' = Append(ledger, LockRow(acq[a].key, a, acq[a].now))
    /\ acq' = [acq EXCEPT ![a].pc = "appended", ![a].row = Len(ledger) + 1]
    /\ UNCHANGED <<store, clock, cache, last, prev, ops, session, calls>>

\* line 48: vals = get_all_values()
LockRead(a) ==
    /\ acq[a].pc = "appended"
    /\ acq' = [acq EXCEPT ![a].pc = "read", ![a].vals = ledger]
    /\ UNCHANGED <<store, ledger, clock, cache, last, prev, ops, session, calls>>

\* lines 50-72: cutoff, claims, winner, status update, return
LockDecide(a) ==
    /\ acq[a].pc = "read"
    /\ LET c == acq[a]
           cutoff == clock - TTL_SEC
       IN  /\ ledger' = LockMark(ledger, c.vals, c.key, a, cutoff)
           /\ calls' = calls \cup {
                  [actor |-> a, key |-> c.key, ts |-> c.now, row |-> c.row,
                   readLen |-> Len(c.vals), at |-> clock,
                   won |-> LockIsWinner(c.vals, c.key, a, cutoff),
                   winner_row |-> IF LockFirst(c.vals, c.key, cutoff) = Nil THEN Nil
                                  ELSE LockFirst(c.vals, c.key, cutoff) + 1]}
    /\ acq' = [acq EXCEPT ![a] = IdleCall]
    /\ UNCHANGED <<store, clock, cache, last, prev, ops, session>>

LockTime ==
    /\ clock + LockTick <= LockMaxClock
    /\ clock' = clock + LockTick
    /\ UNCHANGED <<store, ledger, cache, last, prev, ops, session, acq, calls>>

InitLock ==
    /\ store = <<>>
    /\ cache = <<>>
    /\ last = None
    /\ prev = None
    /\ ops = 0
    /\ epoch = <<>>
    /\ day_cache = <<>>
    /\ metric = <<>>
    /\ run = <<>>
    /\ ledger = <<>>
    /\ clock = 0
    /\ acq = [a \in LockActors |-> IdleCall]
    /\ calls = {}

NextLock ==
    \/ \E a \in LockActors : \E k \in KeysOf(a) : LockStamp(a, k)
    \/ \E a \in LockActors : LockAppend(a)
    \/ \E a \in LockActors : LockRead(a)
    \/ \E a \in LockActors : LockDecide(a)
    \/ LockTime

SpecLock == InitLock /\ [][NextLock]_vars

----------------------------------------------------------------------------
(* handle_add (chat_add.py).  `wb` is the workbook as stored.  A handler's  *)
(* outcome: its result, the tab kind it settled on, the reasons of a failed *)
(* check, the weekly minutes found and requested, and what it left behind:  *)
(* the workbook, the ledger, the session's cached grids, the cells written  *)
(* and the ticks at which a remove found nobody.                            *)

Outcome(result, kind, reasons, week, req, wb, led, ca, writes, missed) ==
    [result |-> result, kind |-> kind, reasons |-> reasons, week |-> week,
     req |-> req, store |-> wb, ledger |-> led, cache |-> ca,
     writes |-> writes, missed |-> missed]

Stop(acc, why) == [acc EXCEPT !.why = why]

\* lines 871-878: the write, mirrored in the local grid
WritePut(acc, rr, c0, name) ==
    [grid |-> SetCell(acc.grid, rr, c0, OALabel(name)),
     writes |-> acc.writes \cup {<<rr, c0>>}, why |-> ""]

\* variant: the last blankish lane
WriteFirstBlank_last(acc, c0, name, lanes, blank) ==
    IF blank = {} THEN Stop(acc, "write_full") ELSE WritePut(acc, lanes[Max(blank)], c0, name)

\* lines 866-881: the first blankish lane
WriteFirstBlank(acc, c0, name, lanes, blank) ==
    IF blank = {} THEN Stop(acc, "write_full") ELSE WritePut(acc, lanes[Min(blank)], c0, name)

\* lines 851-863: the lanes and the cap re-check on UNH
WriteInLanes(acc, c0, per_slot_cap, name, lanes) ==
    IF lanes = <<>> THEN Stop(acc, "no_lanes")
    ELSE IF per_slot_cap # Nil /\ FilledCount(acc.grid, lanes, c0) >= per_slot_cap
        THEN Stop(acc, "just_reached_capacity")
    ELSE WriteFirstBlank(acc, c0, name, lanes, BlankLanes(acc.grid, lanes, c0))

\* lines 846-850: the band of the tick
WriteInBand(acc, c0, per_slot_cap, name, band) ==
    IF band[1] = Nil THEN Stop(acc, "slot_missing")
    ELSE WriteInLanes(acc, c0, per_slot_cap, name, LaneRows(band))

WriteTick(acc, label, c0, per_slot_cap, name) ==
    WriteInBand(acc, c0, per_slot_cap, name, _slot_bands_by_time(acc.grid, label))

\* lines 845-881: tick by tick until one fails
RECURSIVE WriteBands(_, _, _, _, _, _)
WriteBands(acc, slots, i, c0, per_slot_cap, name) ==
    IF i > Len(slots) \/ acc.why # "" THEN acc
    ELSE WriteBands(WriteTick(acc, fmt_time(slots[i]), c0, per_slot_cap, name),
                    slots, i + 1, c0, per_slot_cap, name)

Marked(kind, P) == {<<kind, p[1], p[2]>> : p \in P}

\* variant: a failed write loop leaves the tab as it was
AddCapacityWritten_rollback(wb, kind, week, req, led, w) ==
    Outcome(IF w.why # "" THEN w.why ELSE "ok", kind, {}, week, req,
            IF w.why # "" THEN wb ELSE [wb EXCEPT ![kind] = w.grid], led,
            IF w.why # "" THEN wb ELSE [wb EXCEPT ![kind] = w.grid],
            Marked(kind, w.writes), {})

\* what the write loop left: the cells written stay written on a failure
AddCapacityWritten(wb, kind, week, req, led, w) ==
    Outcome(IF w.why # "" THEN w.why ELSE "ok", kind, {}, week, req,
            [wb EXCEPT ![kind] = w.grid], led, [wb EXCEPT ![kind] = w.grid],
            Marked(kind, w.writes), {})

\* lines 827-881
AddCapacityWrite(wb, kind, name, slots, week, req, led, per_slot_cap, c0) ==
    IF c0 = Nil THEN Outcome("no_header", kind, {}, week, req, wb, led, wb, {}, {})
    ELSE AddCapacityWritten(wb, kind, week, req, led,
             WriteBands([grid |-> wb[kind], writes |-> {}, why |-> ""],
                        slots, 1, c0, per_slot_cap, name))

\* variant: the write loop runs whatever the lock call returned
AddCapacityLocked_anyway(wb, kind, name, day_canon, s, e, week, req, per_slot_cap, lk) ==
    AddCapacityWrite(wb, kind, name, _range_to_slots(s, e), week, req, lk.ledger,
                     per_slot_cap, CapacityDayCol(wb[kind], day_canon))

\* lines 819-824
AddCapacityLocked(wb, kind, name, day_canon, s, e, week, req, per_slot_cap, lk) ==
    IF ~lk.won THEN Outcome("lock_lost", kind, {}, week, req, wb, lk.ledger, wb, {}, {})
    ELSE AddCapacityWrite(wb, kind, name, _range_to_slots(s, e), week, req, lk.ledger,
                          per_slot_cap, CapacityDayCol(wb[kind], day_canon))

\* variant: the lock taken ahead of the check
AddCapacityChecked_lockfirst(wb, led, now, actor, name, kind, day_canon, s, e, week, req, per_slot_cap, reasons) ==
    IF reasons # {}
    THEN Outcome("capacity", kind, reasons, week, req, wb,
                 acquire_fcfs_lock(led, lock_key(Title(kind), day_canon, fmt_time(s), fmt_time(e)),
                                   actor, now, TTL_SEC).ledger, wb, {}, {})
    ELSE AddCapacityLocked(wb, kind, name, day_canon, s, e, week, req, per_slot_cap,
             acquire_fcfs_lock(led, lock_key(Title(kind), day_canon, fmt_time(s), fmt_time(e)),
                               actor, now, TTL_SEC))

\* lines 815-822
AddCapacityChecked(wb, led, now, actor, name, kind, day_canon, s, e, week, req, per_slot_cap, reasons) ==
    IF reasons # {} THEN Outcome("capacity", kind, reasons, week, req, wb, led, wb, {}, {})
    ELSE AddCapacityLocked(wb, kind, name, day_canon, s, e, week, req, per_slot_cap,
             acquire_fcfs_lock(led, lock_key(Title(kind), day_canon, fmt_time(s), fmt_time(e)),
                               actor, now, TTL_SEC))

AddCapacityCap(wb, led, now, actor, name, kind, day_canon, s, e, week, req, per_slot_cap) ==
    AddCapacityChecked(wb, led, now, actor, name, kind, day_canon, s, e, week, req, per_slot_cap,
        _check_unh_mc_capacity_via_grid(wb[kind], day_canon, s, e, per_slot_cap))

\* lines 813-884
AddCapacity(wb, led, now, actor, name, kind, day_canon, s, e, week, req) ==
    AddCapacityCap(wb, led, now, actor, name, kind, day_canon, s, e, week, req,
                   IF kind = "UNH" THEN PER_SLOT_CAP ELSE Nil)

\* lines 790-808: the write into the first blankish lane of the block
AddOnCallPut(wb, week, req, led, c0, name, lanes, blank) ==
    IF blank = {} THEN Outcome("write_full", "ONCALL", {}, week, req, wb, led, wb, {}, {})
    ELSE Outcome("ok", "ONCALL", {}, week, req,
                 [wb EXCEPT !["ONCALL"] = SetCell(wb["ONCALL"], lanes[Min(blank)], c0, OALabel(name))],
                 led,
                 [wb EXCEPT !["ONCALL"] = SetCell(wb["ONCALL"], lanes[Min(blank)], c0, OALabel(name))],
                 {<<"ONCALL", lanes[Min(blank)], c0>>}, {})

\* lines 785-788
AddOnCallLanes(wb, week, req, led, c0, name, lanes) ==
    IF lanes = <<>> THEN Outcome("no_lanes", "ONCALL", {}, week, req, wb, led, wb, {}, {})
    ELSE AddOnCallPut(wb, week, req, led, c0, name, lanes, BlankLanes(wb["ONCALL"], lanes, c0))

\* lines 780-784
AddOnCallBlock(wb, week, req, led, c0, name, b) ==
    IF b[1] = Nil THEN Outcome("block_missing", "ONCALL", {}, week, req, wb, led, wb, {}, {})
    ELSE AddOnCallLanes(wb, week, req, led, c0, name, LaneRows(b))

\* lines 743-777
AddOnCallCol(wb, name, s, e, week, req, led, c0) ==
    IF c0 = Nil THEN Outcome("no_header", "ONCALL", {}, week, req, wb, led, wb, {}, {})
    ELSE AddOnCallBlock(wb, week, req, led, c0, name,
             _find_oncall_block_row_bounds(wb["ONCALL"], c0, Strf12(s), Strf12(e)))

\* lines 735-740
AddOnCallLocked(wb, name, day_canon, s, e, week, req, lk) ==
    IF ~lk.won THEN Outcome("lock_lost", "ONCALL", {}, week, req, wb, lk.ledger, wb, {}, {})
    ELSE AddOnCallCol(wb, name, s, e, week, req, lk.ledger, OnCallDayCol(wb["ONCALL"], day_canon))

\* lines 727-738.  _find_working_oncall_ws applies the same check to each
\* On-Call title it tries (the predicted one, the preferred one, the cached
\* ones); the workbook holds one On-Call tab, so the finder fails exactly
\* when the check of that tab does.
AddOnCallChecked(wb, led, now, actor, name, day_canon, s, e, week, req, reasons) ==
    IF reasons # {} THEN Outcome("capacity", "ONCALL", reasons, week, req, wb, led, wb, {}, {})
    ELSE AddOnCallLocked(wb, name, day_canon, s, e, week, req,
             acquire_fcfs_lock(led, lock_key(Title("ONCALL"), day_canon, fmt_time(s), fmt_time(e)),
                               actor, now, TTL_SEC))

\* lines 725-810
AddOnCall(wb, led, now, actor, name, day_canon, s, e, week, req) ==
    AddOnCallChecked(wb, led, now, actor, name, day_canon, s, e, week, req,
        _check_oncall_capacity_via_grid(wb["ONCALL"], day_canon, s, e))

\* variant: refusing already at the ceiling
AddRouted_atleast(wb, led, now, actor, name, kind, day_canon, s, e, week, req) ==
    IF kind # "ONCALL" /\ ~SheetInfoOk(wb[kind])
        THEN Outcome("no_header", kind, {}, week, req, wb, led, wb, {}, {})
    ELSE IF MinutesToday(wb, name, day_canon) + req >= DAY_CAP_MIN
        THEN Outcome("daily", kind, {}, week, req, wb, led, wb, {}, {})
    ELSE IF kind = "ONCALL"
        THEN AddOnCall(wb, led, now, actor, name, day_canon, s, e, week, req)
    ELSE AddCapacity(wb, led, now, actor, name, kind, day_canon, s, e, week, req)

\* lines 684-722, then the branch of the tab kind
AddRouted(wb, led, now, actor, name, kind, day_canon, s, e, week, req) ==
    IF kind # "ONCALL" /\ ~SheetInfoOk(wb[kind])
        THEN Outcome("no_header", kind, {}, week, req, wb, led, wb, {}, {})
    ELSE IF MinutesToday(wb, name, day_canon) + req > DAY_CAP_MIN
        THEN Outcome("daily", kind, {}, week, req, wb, led, wb, {}, {})
    ELSE IF kind = "ONCALL"
        THEN AddOnCall(wb, led, now, actor, name, day_canon, s, e, week, req)
    ELSE AddCapacity(wb, led, now, actor, name, kind, day_canon, s, e, week, req)

\* f"{x:.1f}" of a whole number of half hours given in minutes
Hours1(m) == ToString(m \div 60) \o "." \o ToString((10 * (m % 60)) \div 60)

\* line 682
WeeklyMessage(week, req) ==
    "More than 20 hours: have " \o Hours1(week) \o "h; request " \o Hours1(req) \o "h."

\* variant: a request that lands exactly on the ceiling is refused
AddWeekly_atleast(wb, led, now, actor, name, kind0, day_canon, s, e, req, week) ==
    IF week + req >= WEEK_CAP_MIN
        THEN Outcome("weekly", kind0, {<<"", WeeklyMessage(week, req)>>}, week, req,
                     wb, led, wb, {}, {})
    ELSE AddRouted(wb, led, now, actor, name,
                   IF kind0 = "ONCALL" /\ e - s < REROUTE_MIN THEN "UNH" ELSE kind0,
                   day_canon, s, e, week, req)

\* variant: an On-Call request of three hours is re-routed too
AddWeekly_upto(wb, led, now, actor, name, kind0, day_canon, s, e, req, week) ==
    IF week + req > WEEK_CAP_MIN
        THEN Outcome("weekly", kind0, {<<"", WeeklyMessage(week, req)>>}, week, req,
                     wb, led, wb, {}, {})
    ELSE AddRouted(wb, led, now, actor, name,
                   IF kind0 = "ONCALL" /\ e - s <= REROUTE_MIN THEN "UNH" ELSE kind0,
                   day_canon, s, e, week, req)

\* lines 681-708: the weekly ceiling, then an On-Call request shorter than
\* three hours goes to the UNH tab
AddWeekly(wb, led, now, actor, name, kind0, day_canon, s, e, req, week) ==
    IF week + req > WEEK_CAP_MIN
        THEN Outcome("weekly", kind0, {<<"", WeeklyMessage(week, req)>>}, week, req,
                     wb, led, wb, {}, {})
    ELSE AddRouted(wb, led, now, actor, name,
                   IF kind0 = "ONCALL" /\ e - s < REROUTE_MIN THEN "UNH" ELSE kind0,
                   day_canon, s, e, week, req)

\* lines 673-679.  The weekly total clears the session's cached ranges of
\* the three tabs and reads them afresh, so every later read of the handler
\* sees the workbook as of that moment.
AddDay(wb, led, ca, now, actor, name, kind0, day_canon, s, e, req) ==
    IF day_canon = None THEN Outcome("bad_day", kind0, {}, 0, req, wb, led, ca, {}, {})
    ELSE AddWeekly(wb, led, now, actor, name, kind0, day_canon, s, e, req,
                   total_hours_from_unh_mc_and_neighbor(wb, name))

\* lines 659-668
AddRolled(wb, led, ca, now, actor, name, kind0, day, s, e) ==
    IF e = Nil THEN Outcome("end_before_start", kind0, {}, 0, 0, wb, led, ca, {}, {})
    ELSE AddDay(wb, led, ca, now, actor, name, kind0, _canon_input_day(day), s, e,
                30 * Len(_range_to_slots(s, e)))

\* lines 646-657, then the rest
handle_add(wb, led, ca, now, actor, name, hint, day, s, e0) ==
    IF ~(_is_half_hour_boundary_dt(s) /\ _is_half_hour_boundary_dt(e0))
        THEN Outcome("boundary", _resolve_campus_title(hint), {}, 0, 0, wb, led, ca, {}, {})
    ELSE AddRolled(wb, led, ca, now, actor, name, _resolve_campus_title(hint), day, s,
                   RollEnd(s, e0))

----------------------------------------------------------------------------
(* handle_remove (chat_remove.py).  It reads the grid through the session's *)
(* range cache (`ca`) and writes to the workbook (`wb`).                    *)

\* ws.update_cell(rr + 1, c + 1, "") for each row of R
RECURSIVE ClearCells(_, _, _)
ClearCells(sheet, R, c) ==
    IF R = {} THEN sheet ELSE ClearCells(SetCell(sheet, Min(R), c, ""), R \ {Min(R)}, c)

\* lanes whose cell in column c0 holds the name
HitRows(grid, lanes, c0, name) ==
    {lanes[j] : j \in {k \in 1..Len(lanes) : RemoveMatches(Cell(grid, lanes[k], c0), name)}}

\* lines 184-192: every matching lane is cleared at column c1; a tick
\* without a match is only noted
ClearHit(acc, label, c1, hit) ==
    [sheet |-> ClearCells(acc.sheet, hit, c1),
     writes |-> acc.writes \cup {<<rr, c1>> : rr \in hit},
     missed |-> IF hit = {} THEN acc.missed \cup {label} ELSE acc.missed,
     why |-> ""]

\* lines 161, 180-188: lanes are matched in column c0 and cleared with
\* update_cell(rr + 1, c1 + 1, "") where c1 = c0 + 1
ClearInBand(acc, grid, label, c0, name, band) ==
    IF band[1] = Nil THEN Stop(acc, "slot_missing")
    ELSE ClearHit(acc, label, c0 + 1, HitRows(grid, LaneRows(band), c0, name))

ClearTick(acc, grid, label, c0, name) ==
    ClearInBand(acc, grid, label, c0, name, _slot_bands_by_time(grid, label))

\* lines 178-192
RECURSIVE ClearBands(_, _, _, _, _, _)
ClearBands(acc, grid, slots, i, c0, name) ==
    IF i > Len(slots) \/ acc.why # "" THEN acc
    ELSE ClearBands(ClearTick(acc, grid, fmt_time(slots[i]), c0, name),
                    grid, slots, i + 1, c0, name)

\* on success the weekly total is recomputed (line 197), which refreshes
\* the session's cached ranges
RemoveCapacityDone(wb, ca, led, kind, w) ==
    Outcome(IF w.why # "" THEN w.why ELSE "ok", kind, {}, 0, 0,
            [wb EXCEPT ![kind] = w.sheet], led,
            IF w.why # "" THEN ca ELSE [wb EXCEPT ![kind] = w.sheet],
            Marked(kind, w.writes), w.missed)

RemoveCapacityCol(wb, ca, led, name, kind, slots, c0) ==
    IF c0 = Nil THEN Outcome("no_header", kind, {}, 0, 0, wb, led, ca, {}, {})
    ELSE RemoveCapacityDone(wb, ca, led, kind,
             ClearBands([sheet |-> wb[kind], writes |-> {}, missed |-> {}, why |-> ""],
                        ca[kind], slots, 1, c0, name))

\* lines 145-194: no lock is taken
RemoveCapacity(wb, ca, led, name, kind, day_canon, s, e) ==
    IF ~SheetInfoOk(ca[kind]) THEN Outcome("no_header", kind, {}, 0, 0, wb, led, ca, {}, {})
    ELSE RemoveCapacityCol(wb, ca, led, name, kind, _range_to_slots(s, e),
                           CapacityDayCol(ca[kind], day_canon))

\* variant: a block without the person is passed over in silence
RemoveOnCallHit_tolerant(wb, ca, led, c0, hit) ==
    Outcome("ok", "ONCALL", {}, 0, 0,
            [wb EXCEPT !["ONCALL"] = ClearCells(wb["ONCALL"], hit, c0)], led,
            [wb EXCEPT !["ONCALL"] = ClearCells(wb["ONCALL"], hit, c0)],
            {<<"ONCALL", rr, c0>> : rr \in hit}, {})

\* lines 132-140
RemoveOnCallHit(wb, ca, led, c0, hit) ==
    IF hit = {} THEN Outcome("not_found", "ONCALL", {}, 0, 0, wb, led, ca, {}, {})
    ELSE Outcome("ok", "ONCALL", {}, 0, 0,
                 [wb EXCEPT !["ONCALL"] = ClearCells(wb["ONCALL"], hit, c0)], led,
                 [wb EXCEPT !["ONCALL"] = ClearCells(wb["ONCALL"], hit, c0)],
                 {<<"ONCALL", rr, c0>> : rr \in hit}, {})

\* lines 127-130
RemoveOnCallLanes(wb, ca, led, name, c0, lanes) ==
    IF lanes = <<>> THEN Outcome("no_lanes", "ONCALL", {}, 0, 0, wb, led, ca, {}, {})
    ELSE RemoveOnCallHit(wb, ca, led, c0, HitRows(ca["ONCALL"], lanes, c0, name))

\* lines 122-126
RemoveOnCallBlock(wb, ca, led, name, c0, b) ==
    IF b[1] = Nil THEN Outcome("block_missing", "ONCALL", {}, 0, 0, wb, led, ca, {}, {})
    ELSE RemoveOnCallLanes(wb, ca, led, name, c0, LaneRows(b))

\* lines 98-118
RemoveOnCallCol(wb, ca, led, name, s, e, c0) ==
    IF c0 = Nil THEN Outcome("no_header", "ONCALL", {}, 0, 0, wb, led, ca, {}, {})
    ELSE RemoveOnCallBlock(wb, ca, led, name, c0,
             _find_oncall_block_row_bounds(ca["ONCALL"], c0, Strf12(s), Strf12(e)))

\* lines 89-95
RemoveOnCallLocked(wb, ca, name, day_canon, s, e, lk) ==
    IF ~lk.won THEN Outcome("lock_lost", "ONCALL", {}, 0, 0, wb, lk.ledger, ca, {}, {})
    ELSE IF ca["ONCALL"] = <<>>
        THEN Outcome("sheet_empty", "ONCALL", {}, 0, 0, wb, lk.ledger, ca, {}, {})
    ELSE RemoveOnCallCol(wb, ca, lk.ledger, name, s, e, OnCallDayCol(ca["ONCALL"], day_canon))

\* lines 80-142: the lock is taken under the target's name
RemoveOnCall(wb, ca, led, now, name, day_canon, s, e) ==
    RemoveOnCallLocked(wb, ca, name, day_canon, s, e,
        acquire_fcfs_lock(led, lock_key(Title("ONCALL"), day_canon, fmt_time(s), fmt_time(e)),
                          name, now, TTL_SEC))

RemoveDay(wb, led, ca, now, name, kind, day_canon, s, e) ==
    IF day_canon = None THEN Outcome("bad_day", kind, {}, 0, 0, wb, led, ca, {}, {})
    ELSE IF kind = "ONCALL" THEN RemoveOnCall(wb, ca, led, now, name, day_canon, s, e)
    ELSE RemoveCapacity(wb, ca, led, name, kind, day_canon, s, e)

RemoveRolled(wb, led, ca, now, name, kind, day, s, e) ==
    IF e = Nil THEN Outcome("end_before_start", kind, {}, 0, 0, wb, led, ca, {}, {})
    ELSE RemoveDay(wb, led, ca, now, name, kind, _canon_input_day(day), s, e)

\* lines 50-77, then the branch of the tab kind
handle_remove(wb, led, ca, now, name, hint, day, s, e0) ==
    IF ~(_is_half_hour_boundary_dt(s) /\ _is_half_hour_boundary_dt(e0))
        THEN Outcome("boundary", _resolve_campus_title(hint), {}, 0, 0, wb, led, ca, {}, {})
    ELSE RemoveRolled(wb, led, ca, now, name, _resolve_campus_title(hint), day, s,
                      RollEnd(s, e0))

----------------------------------------------------------------------------
(* handle_change (chat_change.py): remove the old window, add the new one,  *)
(* and on a failed add put the old window back.  The app passes one day and *)
(* one pair of windows, so the loop of lines 92-145 runs once.              *)

\* str(err) of a failed handler call: its failure and the reasons it cites
ErrorOf(o) == <<o.result, o.reasons>>

\* a handler call that was not made
NotRun == [result |-> None, reasons |-> {}, kind |-> None]

\* HOURS_EPOCH bumps made inside handle_add: an On-Call write calls
\* invalidate_hours_caches (chat_add.py line 798)
BumpsIn(o) == IF o.result = "ok" /\ o.kind = "ONCALL" THEN 1 ELSE 0

\* how handle_change ended: `result` is "ok" for the returned summary, the
\* remove's failure when the remove raised, "restored" for the error of
\* lines 135-139 and "dual" for the error of lines 129-132
ChangeEnd(result, message, r, a1, a2, end, bumps) ==
    [result |-> result, kind |-> r.kind, reasons |-> {}, week |-> 0, req |-> 0,
     store |-> end.store, ledger |-> end.ledger, cache |-> end.cache,
     writes |-> r.writes, missed |-> r.missed, bumps |-> bumps,
     inner |-> [remove |-> r.result, add |-> a1.result, rollback |-> a2.result,
                add_err |-> IF a1.result \in {None, "ok"} THEN <<>> ELSE ErrorOf(a1),
                rollback_err |-> IF a2.result \in {None, "ok"} THEN <<>> ELSE ErrorOf(a2),
                message |-> message]]

\* variant: a failed rollback reported like a restored shift
ChangeRolledBack_swallow(r, a1, a2) ==
    ChangeEnd("restored", "Could not add the new window. Your original shift was restored.",
              r, a1, a2, a2, BumpsIn(a2))

\* lines 128-139
ChangeRolledBack(r, a1, a2) ==
    IF a2.result # "ok"
    THEN ChangeEnd("dual", "Add failed and rollback also failed - schedule may be inconsistent.",
                   r, a1, a2, a2, 0)
    ELSE ChangeEnd("restored", "Could not add the new window. Your original shift was restored.",
                   r, a1, a2, a2, BumpsIn(a2))

\* lines 106-127
ChangeAdded(now, actor, name, hint, day, os, oe, r, a1) ==
    IF a1.result = "ok" THEN ChangeEnd("ok", "Changed", r, a1, NotRun, a1, BumpsIn(a1))
    ELSE ChangeRolledBack(r, a1,
             handle_add(a1.store, a1.ledger, a1.cache, now, actor, name, hint, day, os, oe))

\* variant: the add is tried whatever the remove did
ChangeRemoved_anyway(now, actor, name, hint, day, os, oe, ns, ne, r) ==
    ChangeAdded(now, actor, name, hint, day, os, oe, r,
        handle_add(r.store, r.ledger, r.cache, now, actor, name, hint, day, ns, ne))

\* lines 96-115: an error of the remove leaves handle_change as it is
ChangeRemoved(now, actor, name, hint, day, os, oe, ns, ne, r) ==
    IF r.result # "ok" THEN ChangeEnd(r.result, "", r, NotRun, NotRun, r, 0)
    ELSE ChangeAdded(now, actor, name, hint, day, os, oe, r,
             handle_add(r.store, r.ledger, r.cache, now, actor, name, hint, day, ns, ne))

handle_change(wb, led, ca, now, actor, name, hint, day, os, oe, ns, ne) ==
    ChangeRemoved(now, actor, name, hint, day, os, oe, ns, ne,
        handle_remove(wb, led, ca, now, name, hint, day, os, oe))


\* lines 92-145 over the zipped lists: the pairs in order, each on what the
\* pair before left; an error of a pair leaves the loop
RECURSIVE ChangeLoop(_, _, _, _, _, _, _, _, _)
ChangeStep(now, actor, hint, pairs, i, done, o) ==
    IF o.result # "ok" THEN Append(done, o)
    ELSE ChangeLoop(o.store, o.ledger, o.cache, now, actor, hint, pairs, i + 1, Append(done, o))

ChangeLoop(wb, led, ca, now, actor, hint, pairs, i, done) ==
    IF i > Len(pairs) THEN done
    ELSE ChangeStep(now, actor, hint, pairs, i, done,
             handle_change(wb, led, ca, now, actor, actor, hint, pairs[i].day,
                           pairs[i].old[1], pairs[i].old[2], pairs[i].new[1], pairs[i].new[2]))

----------------------------------------------------------------------------
(* The workbook.  A capacity tab: header row, then per band a time row and  *)
(* its lane rows, closed by the next time row; columns Time, Monday,        *)
(* Tuesday and a spare one.  The On-Call tab: header row, then per block a  *)
(* range-label row and its lane rows, closed by a label row; columns        *)
(* Monday and Saturday, labels and names in the same column.                *)

TimeRow(m) == <<fmt_time(m), "", "", "">>

LaneRow(mon, tue) == <<"", mon, tue, "">>

\* lanes900, lanes930: sequences of <<monday text, tuesday text>>
CapGrid(lanes900, lanes930) ==
    <<<<"Time", "Monday", "Tuesday", "">>, TimeRow(540)>>
        \o [i \in 1..Len(lanes900) |-> LaneRow(lanes900[i][1], lanes900[i][2])]
        \o <<TimeRow(570)>>
        \o [i \in 1..Len(lanes930) |-> LaneRow(lanes930[i][1], lanes930[i][2])]
        \o <<TimeRow(600)>>

BlockRow(s, e) == <<RangeLabel(s, e), RangeLabel(s, e)>>

\* lanesA, lanesB: sequences of <<monday text, saturday text>>
OnCallGrid(lanesA, lanesB) ==
    <<<<"Monday, 9/8", "Saturday, 9/13">>, BlockRow(420, 660)>>
        \o lanesA \o <<BlockRow(660, 960)>> \o lanesB \o <<BlockRow(960, 1260)>>

Blank2 == <<"", "">>

\* an empty week
BookEmpty ==
    [UNH |-> CapGrid(<<Blank2, Blank2, Blank2>>, <<Blank2, Blank2, Blank2>>),
     MC |-> CapGrid(<<Blank2, Blank2>>, <<Blank2, Blank2>>),
     ONCALL |-> OnCallGrid(<<Blank2, Blank2>>, <<Blank2, Blank2>>)]

\* a week partly booked
BookPartial ==
    [UNH |-> CapGrid(<<<<OALabel("Joann"), "">>, Blank2, Blank2>>,
                     <<<<OALabel("Joann"), "">>, <<OALabel("Bob"), "">>, Blank2>>),
     MC |-> CapGrid(<<Blank2, <<OALabel("Joann"), "">>>>, <<Blank2, Blank2>>),
     ONCALL |-> OnCallGrid(<<<<OALabel("Joann"), OALabel("Bob")>>, <<"", OALabel("Joann")>>>>,
                           <<<<OALabel("Bob"), "">>, <<"-", "">>>>)]

\* a week in which Ann holds 19.5 h
BookNearCap ==
    [UNH |-> CapGrid(<<<<"", OALabel("Ann")>>, Blank2, Blank2>>,
                     <<<<"", OALabel("Ann")>>, Blank2, Blank2>>),
     MC |-> CapGrid(<<<<"", OALabel("Ann")>>, Blank2>>,
                    <<<<OALabel("Ann"), OALabel("Ann")>>, Blank2>>),
     ONCALL |-> OnCallGrid(<<<<"", OALabel("Ann")>>, <<"", OALabel("Ann")>>>>,
                           <<<<OALabel("Ann"), OALabel("Ann")>>, Blank2>>)]

\* a week in which Bob holds both lanes of both Saturday On-Call blocks:
\* four mentions in a weekend column, 16 h by the aggregator's weights
BookWeekend ==
    [UNH |-> CapGrid(<<Blank2, Blank2, Blank2>>, <<Blank2, Blank2, Blank2>>),
     MC |-> CapGrid(<<Blank2, Blank2>>, <<Blank2, Blank2>>),
     ONCALL |-> OnCallGrid(<<<<"", OALabel("Bob")>>, <<"", OALabel("Bob")>>>>,
                           <<<<"", OALabel("Bob")>>, <<"", OALabel("Bob")>>>>)]

Books == {BookEmpty, BookPartial, BookNearCap, BookWeekend}

----------------------------------------------------------------------------
(* Requests typed into the chat: a tab hint, a day token, a window *)

CapWindows == {<<540, 570>>, <<540, 600>>, <<555, 600>>}

OnCallWindows == {<<420, 660>>, <<660, 960>>, <<420, 600>>, <<540, 570>>, <<420, 645>>}

Req(h, d, w) == [hint |-> h, day |-> d, s |-> w[1], e |-> w[2]]

Requests ==
    {Req(h, "mon", w) : h \in {"unh", "mc"}, w \in CapWindows}
        \cup {Req("oncall", "mon", w) : w \in OnCallWindows}
        \cup {Req("oncall", "satur", <<420, 660>>), Req("mc", "satur", <<540, 570>>)}

\* a run without rate-limit rejections
NoFault == [site |-> None, n |-> 0]

NoInner ==
    [remove |-> None, add |-> None, rollback |-> None, add_err |-> <<>>,
     rollback_err |-> <<>>, message |-> None]

NoLast ==
    [op |-> "none", actor |-> None, req |-> Req(None, None, <<0, 0>>),
     result |-> None, kind |-> None, reasons |-> {}, week |-> 0, minutes |-> 0,
     writes |-> {}, missed |-> {}, before |-> <<>>, view |-> <<>>, ledger_before |-> <<>>,
     epoch_before |-> 0, fault |-> NoFault, new |-> <<0, 0>>, inner |-> NoInner,
     locked |-> <<>>]

\* what is kept of a handler run: the request, the outcome, and the
\* workbook, the session's cached grids, the ledger and the session's
\* hours epoch as they were at entry
Seen(op, a, rq, o, wb, ca, led) ==
    [op |-> op, actor |-> a, req |-> rq, result |-> o.result, kind |-> o.kind,
     reasons |-> o.reasons, week |-> o.week, minutes |-> o.req,
     writes |-> o.writes, missed |-> o.missed, before |-> wb, view |-> ca,
     ledger_before |-> led, epoch_before |-> epoch[a], fault |-> NoFault,
     new |-> <<0, 0>>, inner |-> NoInner, locked |-> <<>>]

NoMetric == [epoch |-> Nil, hours |-> 0, seq |-> Nil]

\* the session's DAY_CACHE entries (`at`, `maps`) and the day-column ranges
\* kept in its WS_RANGE_CACHE (`held`)
NoMaps == [k \in {"UNH", "MC"} |-> <<>>]

NoDayCache == [at |-> Nil, maps |-> NoMaps, held |-> NoMaps]

NoRun == [pc |-> "idle"]

----------------------------------------------------------------------------
(* The chat engine: each session runs one handler to its end at a time *)

Init ==
    /\ store \in Books
    /\ ledger = <<>>
    /\ clock = 0
    /\ cache = [a \in Actors |-> store]
    /\ last = NoLast
    /\ prev = NoLast
    /\ ops = 0
    /\ acq = [a \in LockActors |-> IdleCall]
    /\ calls = {}
    /\ epoch = [a \in Actors |-> 0]
    /\ day_cache = [a \in Actors |-> NoDayCache]
    /\ metric = [a \in Actors |-> NoMetric]
    /\ run = [a \in Actors |-> NoRun]

\* hours.invalidate_hours_caches
invalidate_hours_caches(n) == n + 1

\* variant: the epoch left as it is
_bust_hours_cache_keep(n) == n

\* app._bust_hours_cache: HOURS_EPOCH + 1 (and compute_hours_fast.clear())
_bust_hours_cache(n) == n + 1

\* the session's epoch after a handler call: the bumps made inside the
\* call, then the app's bump when the call returned (app.py 335-373)
EpochAfter(n, o, inside) ==
    IF o.result = "ok" THEN _bust_hours_cache(n + inside) ELSE n + inside

\* hours._clear_ws_cache_for_titles, called by the weekly total: the ranges
\* the session cached for the three tabs are dropped.  handle_add reaches
\* the total once day and times are accepted (chat_add.py 679),
\* handle_remove when it succeeds (chat_remove.py 197), handle_change
\* through the two.
TotalCalled(op, o) ==
    CASE op = "add" -> o.result \notin {"boundary", "end_before_start", "bad_day"}
      [] op = "remove" -> o.result = "ok"
      [] op = "change" -> o.inner.remove = "ok"

_clear_ws_cache_for_titles(dc, op, o) ==
    IF TotalCalled(op, o) THEN [dc EXCEPT !.held = NoMaps] ELSE dc

\* compute_hours_fast.clear() empties the memo of every session
Busted(o) == IF o.result = "ok" THEN [b \in Actors |-> NoMetric] ELSE metric

\* app dispatch of an add: actor and target are the session's user
HandleAdd(a, rq) ==
    /\ ops < MaxOps
    /\ \E o \in {handle_add(store, ledger, cache[a], clock, a, a, rq.hint, rq.day, rq.s, rq.e)} :
           /\ store' = o.store
           /\ ledger' = o.ledger
           /\ cache' = [cache EXCEPT ![a] = o.cache]
           /\ last' = Seen("add", a, rq, o, store, cache[a], ledger)
           /\ prev' = last
           /\ epoch' = [epoch EXCEPT ![a] = EpochAfter(@, o, BumpsIn(o))]
           /\ metric' = Busted(o)
           /\ day_cache' = [day_cache EXCEPT ![a] = _clear_ws_cache_for_titles(@, "add", o)]
    /\ ops' = ops + 1
    /\ UNCHANGED <<clock, acq, calls, run>>

HandleRemove(a, rq) ==
    /\ ops < MaxOps
    /\ \E o \in {handle_remove(store, ledger, cache[a], clock, a, rq.hint, rq.day, rq.s, rq.e)} :
           /\ store' = o.store
           /\ ledger' = o.ledger
           /\ cache' = [cache EXCEPT ![a] = o.cache]
           /\ last' = Seen("remove", a, rq, o, store, cache[a], ledger)
           /\ prev' = last
           /\ epoch' = [epoch EXCEPT ![a] = EpochAfter(@, o, 0)]
           /\ metric' = Busted(o)
           /\ day_cache' = [day_cache EXCEPT ![a] = _clear_ws_cache_for_titles(@, "remove", o)]
    /\ ops' = ops + 1
    /\ UNCHANGED <<clock, acq, calls, run>>

Tick ==
    /\ clock + TickSec <= MaxClock
    /\ clock' = clock + TickSec
    /\ UNCHANGED <<store, ledger, cache, last, prev, ops, acq, calls, session>>

Next ==
    \/ \E a \in Actors, rq \in Requests : HandleAdd(a, rq)
    \/ \E a \in Actors, rq \in Requests : HandleRemove(a, rq)
    \/ Tick

Spec == Init /\ [][Next]_vars

----------------------------------------------------------------------------
(* The chat engine with the change command *)

\* a change keeps the tab and the day and moves the window
Changes ==
    {<<Req(h, "mon", w), v>> : h \in {"unh", "mc"}, w \in CapWindows, v \in CapWindows}
        \cup {<<Req("oncall", "mon", w), v>> :
                  w \in {<<420, 660>>, <<660, 960>>}, v \in OnCallWindows}

\* app dispatch of a change
HandleChange(a, rq, new) ==
    /\ ops < MaxOps
    /\ <<rq.s, rq.e>> # new
    /\ \E o \in {handle_change(store, ledger, cache[a], clock, a, a, rq.hint, rq.day,
                                 rq.s, rq.e, new[1], new[2])} :
           /\ store' = o.store
           /\ ledger' = o.ledger
           /\ cache' = [cache EXCEPT ![a] = o.cache]
           /\ last' = [Seen("change", a, rq, o, store, cache[a], ledger)
                           EXCEPT !.new = new, !.inner = o.inner]
           /\ prev' = last
           /\ epoch' = [epoch EXCEPT ![a] = EpochAfter(@, o, o.bumps)]
           /\ metric' = Busted(o)
           /\ day_cache' = [day_cache EXCEPT ![a] = _clear_ws_cache_for_titles(@, "change", o)]
    /\ ops' = ops + 1
    /\ UNCHANGED <<clock, acq, calls, run>>

NextChange ==
    \/ Next
    \/ \E a \in Actors, ch \in Changes : HandleChange(a, ch[1], ch[2])

SpecChange == Init /\ [][NextChange]_vars

----------------------------------------------------------------------------
(* The sidebar metric (app.py 259-272, hours.compute_hours_fast) *)

\* Schedule._build_header_map: a first-row cell that is a weekday word
HeaderWord(v) ==
    CASE v = "Monday" -> "monday"
      [] v = "Tuesday" -> "tuesday"
      [] OTHER -> None

\* columns (0-based) the header map holds: the last one of each weekday
_build_header_map(grid) ==
    {Max({c \in 0..(NCols(grid) - 1) : HeaderWord(Cell(grid, 0, c)) = d}) :
        d \in {x \in DayNames : \E c \in 0..(NCols(grid) - 1) : HeaderWord(Cell(grid, 0, c)) = x}}

\* utils.is_time_token on a cell of the first column
is_time_token(v) == v # "" /\ v # "Time" /\ _parse_time_cell(v) # Nil

\* Schedule._build_sheet_info_lazy: rows from the second on that follow a
\* time row and are not one
lane_rows_all(grid) ==
    {r \in 1..(Len(grid) - 1) :
        /\ ~is_time_token(Cell(grid, r, 0))
        /\ \E r0 \in 1..(r - 1) : is_time_token(Cell(grid, r0, 0))}

\* day_min_row .. day_max_row
DayRows(grid) ==
    IF lane_rows_all(grid) = {} THEN 1..(Len(grid) - 1)
    ELSE Min(lane_rows_all(grid))..Max(lane_rows_all(grid))

\* hours.py 264-273: 0.5 h per cell of a day-column map that mentions the
\* person; a tab without weekday header falls back to the grid count
DayColumnCount(grid, whole, name) ==
    IF _build_header_map(grid) = {} THEN _count_half_hour_grid(whole, name)
    ELSE 30 * Cardinality({p \in DayRows(grid) \X _build_header_map(grid) :
                              _cell_mentions_person(Cell(grid, p[1], p[2]), name)})

\* hours.py 240-293: the sum of the three subtotals is returned as it is
compute_hours_fast(maps, ca, name) ==
    DayColumnCount(maps["UNH"], ca["UNH"], name) + DayColumnCount(maps["MC"], ca["MC"], name)
        + _count_oncall_by_day_headers(ca["ONCALL"], name)

\* quotas.read_day_column_map_cached line 50: the entry is young enough
DayCacheValid(dc, now) == dc.at # Nil /\ now - dc.at <= DAY_CACHE_TTL_SEC

\* quotas.read_day_column_map_cached: the cached maps while they are young
\* enough, else the ranges through _safe_batch_get, which answers from the
\* session's range cache when it holds them
read_day_column_map_cached(dc, wb, now) ==
    IF DayCacheValid(dc, now) THEN dc
    ELSE IF dc.held # NoMaps THEN [at |-> now, maps |-> dc.held, held |-> dc.held]
    ELSE [at |-> now, maps |-> [k \in {"UNH", "MC"} |-> wb[k]],
          held |-> [k \in {"UNH", "MC"} |-> wb[k]]]

HoursTickSec == 15
HoursMaxClock == 30

HoursRequests ==
    {Req("unh", "mon", <<540, 570>>), Req("oncall", "mon", <<420, 660>>)}

InitHours == Init /\ store \in {BookPartial, BookWeekend}

\* a script run renders the sidebar: compute_hours_fast(ss, schedule, canon,
\* epoch=HOURS_EPOCH) runs its body when the memo holds no value for the
\* session's name and epoch
Render(a) ==
    /\ metric[a].epoch # epoch[a]
    /\ \E dc \in {read_day_column_map_cached(day_cache[a], store, clock)} :
           /\ day_cache' = [day_cache EXCEPT ![a] = dc]
           /\ metric' = [metric EXCEPT ![a] =
                             [epoch |-> epoch[a],
                              hours |-> compute_hours_fast(dc.maps, cache[a], a),
                              seq |-> ops]]
    /\ UNCHANGED <<store, ledger, clock, cache, last, prev, ops, acq, calls, epoch, run>>

HoursTick ==
    /\ clock + HoursTickSec <= HoursMaxClock
    /\ clock' = clock + HoursTickSec
    /\ UNCHANGED <<store, ledger, cache, last, prev, ops, acq, calls, session>>

NextHours ==
    \/ \E a \in Actors : Render(a)
    \/ \E a \in Actors, rq \in HoursRequests : HandleAdd(a, rq)
    \/ \E a \in Actors, rq \in HoursRequests : HandleRemove(a, rq)
    \/ HoursTick

SpecHours == InitHours /\ [][NextHours]_vars

----------------------------------------------------------------------------
(* Adds of two sessions on a capacity tab, step by step.  A session's calls *)
(* to the workbook are separate requests, so another session's calls fall   *)
(* between them: the reads and checks up to the capacity check (chat_add.py *)
(* 646-817), the lock (819-824), and the grid read, the re-check and the    *)
(* cell writes (827-887).                                                   *)

RaceRequests == {Req("mc", "mon", <<540, 570>>), Req("mc", "mon", <<540, 600>>),
                 Req("unh", "mon", <<540, 570>>)}

\* ws0.update_cell(rr + 1, c0 + 1, v) for each <<rr, c0>> of W
PutCells(grid, W, v) ==
    [i \in 1..Len(grid) |->
        [j \in 1..Len(grid[i]) |-> IF <<i - 1, j - 1>> \in W THEN v ELSE grid[i][j]]]

\* the handler ended: what the app keeps of it
AddEnded(a, rq, o, locked) ==
    /\ last' = [Seen("add", a, rq, o, store, cache[a], ledger) EXCEPT !.locked = locked]
    /\ prev' = last
    /\ epoch' = [epoch EXCEPT ![a] = EpochAfter(@, o, BumpsIn(o))]
    /\ metric' = Busted(o)
    /\ run' = [run EXCEPT ![a] = NoRun]

\* lines 646-817: validation, the weekly total (which reads the three tabs
\* afresh into the session's range cache), the daily ceiling and the
\* capacity check.  A request that fails one of them ends here, as in the
\* handler run at once; the others go on to the lock.
AddBegin(a, rq) ==
    /\ ops < MaxOps
    /\ run[a].pc = "idle"
    /\ \E o \in {handle_add(store, ledger, cache[a], clock, a, a, rq.hint, rq.day, rq.s, rq.e)} :
           IF o.ledger = ledger
           THEN /\ AddEnded(a, rq, o, <<>>)
                /\ cache' = [cache EXCEPT ![a] = o.cache]
                /\ day_cache' = [day_cache EXCEPT ![a] = _clear_ws_cache_for_titles(@, "add", o)]
           ELSE /\ run' = [run EXCEPT ![a] =
                              [pc |-> "lock", req |-> rq, kind |-> o.kind, week |-> o.week,
                               minutes |-> o.req, locked |-> <<>>]]
                /\ cache' = [cache EXCEPT ![a] = store]
                /\ day_cache' = [day_cache EXCEPT ![a].held = NoMaps]
                /\ UNCHANGED <<last, prev, epoch, metric>>
    /\ ops' = ops + 1
    /\ UNCHANGED <<store, ledger, clock, acq, calls>>

\* lines 819-824
AddLock(a) ==
    /\ run[a].pc = "lock"
    /\ \E lk \in {acquire_fcfs_lock(ledger,
                      lock_key(Title(run[a].kind), _canon_input_day(run[a].req.day),
                               fmt_time(run[a].req.s), fmt_time(run[a].req.e)),
                      a, clock, TTL_SEC)} :
           /\ ledger' = lk.ledger
           /\ IF lk.won
              THEN /\ run' = [run EXCEPT ![a].pc = "write", ![a].locked = store]
                   /\ UNCHANGED <<last, prev, epoch, metric>>
              ELSE AddEnded(a, run[a].req,
                            Outcome("lock_lost", run[a].kind, {}, run[a].week, run[a].minutes,
                                    store, lk.ledger, cache[a], {}, {}), store)
    /\ UNCHANGED <<store, clock, cache, ops, acq, calls, day_cache>>

\* lines 827-887: _read_grid(ws0) is answered from the session's range
\* cache, filled at the weekly total; the cells are written to the workbook
\* with update_cell and mirrored in that grid; after the last write the
\* weekly total reads the tabs afresh
AddWritten(a, kind, c0, w) ==
    /\ store' = [store EXCEPT ![kind] = PutCells(@, w.writes, OALabel(a))]
    /\ cache' = [cache EXCEPT ![a] =
                    IF c0 # Nil /\ w.why = ""
                    THEN [store EXCEPT ![kind] = PutCells(@, w.writes, OALabel(a))]
                    ELSE [cache[a] EXCEPT ![kind] = w.grid]]
    /\ AddEnded(a, run[a].req,
                Outcome(IF c0 = Nil THEN "no_header" ELSE IF w.why # "" THEN w.why ELSE "ok",
                        kind, {}, run[a].week, run[a].minutes, store, ledger, cache[a],
                        Marked(kind, w.writes), {}),
                run[a].locked)

AddWrite(a) ==
    /\ run[a].pc = "write"
    /\ \E c0 \in {CapacityDayCol(cache[a][run[a].kind], _canon_input_day(run[a].req.day))} :
           AddWritten(a, run[a].kind, c0,
               IF c0 = Nil THEN [grid |-> cache[a][run[a].kind], writes |-> {}, why |-> ""]
               ELSE WriteBands([grid |-> cache[a][run[a].kind], writes |-> {}, why |-> ""],
                               _range_to_slots(run[a].req.s, run[a].req.e), 1, c0,
                               IF run[a].kind = "UNH" THEN PER_SLOT_CAP ELSE Nil, a))
    /\ UNCHANGED <<ledger, clock, ops, acq, calls, day_cache>>

NextRace ==
    \/ \E a \in Actors, rq \in RaceRequests : AddBegin(a, rq)
    \/ \E a \in Actors : AddLock(a)
    \/ \E a \in Actors : AddWrite(a)
    \/ Tick

SpecRace == Init /\ [][NextRace]_vars

----------------------------------------------------------------------------
(* Rate limits.  The store answers a call with a rate-limit error (HTTP     *)
(* 429) `n` times in a row, starting with the first call the handler makes  *)
(* at `site`: the grid read of the weekly total, the ledger append, the     *)
(* ledger read-back, or the first cell write.                               *)

Sites == {"grid", "append", "readback", "write"}

\* attempts a call gets: _safe_batch_get tries 4 times in its loop and once
\* after it (quotas.py 12-23), _retry_429 5 times and once after it
\* (locks.py 10-19); update_cell is called bare (chat_add.py 794, 871,
\* chat_remove.py 136, 188)
Attempts(site) ==
    CASE site = "grid" -> BATCH_GET_RETRIES + 1
      [] site \in {"append", "readback"} -> RETRY_429 + 1
      [] site = "write" -> 1

\* the call goes through on one of its attempts
Served(f) == f.n < Attempts(f.site)

QuotaCounts == {0, 1, BATCH_GET_RETRIES, RETRY_429, RETRY_429 + 1}

Faults == {[site |-> s, n |-> n] : s \in Sites, n \in QuotaCounts}

QuotaRequests == {Req("unh", "mon", <<540, 570>>), Req("oncall", "mon", <<420, 660>>)}

\* the handler raised the store's error
RateLimited(o, wb, led) ==
    Outcome("rate_limited", o.kind, {}, o.week, o.req, wb, led, wb, {}, {})

\* the handler's lock key
KeyOf(o, rq) ==
    lock_key(Title(o.kind), _canon_input_day(rq.day), fmt_time(rq.s), fmt_time(rq.e))

\* A call that is not served raises out of the handler, except the grid
\* read of the weekly total, whose error hours.py 314-319 turns into a
\* subtotal of 0.0 for the tab read first (UNH); the reads that follow are
\* served.  `o` is the outcome without rate limits: a site the handler does
\* not reach rejects nothing.
AddUnderQuota(wb, led, now, a, rq, f, o) ==
    IF Served(f) \/ o.result \in {"boundary", "end_before_start", "bad_day"} THEN o
    ELSE IF f.site = "grid"
        THEN AddWeekly(wb, led, now, a, a, _resolve_campus_title(rq.hint),
                       _canon_input_day(rq.day), rq.s, rq.e,
                       30 * Len(_range_to_slots(rq.s, rq.e)),
                       _count_half_hour_grid(wb["MC"], a)
                           + _count_oncall_by_day_headers(wb["ONCALL"], a))
    ELSE IF f.site = "append"
        THEN IF o.ledger = led THEN o ELSE RateLimited(o, wb, led)
    ELSE IF f.site = "readback"
        THEN IF o.ledger = led THEN o
             ELSE RateLimited(o, wb, Append(led, LockRow(KeyOf(o, rq), a, now)))
    ELSE IF o.writes = {} THEN o ELSE RateLimited(o, wb, o.ledger)

\* handle_remove reads its grid through the session's range cache
RemoveUnderQuota(wb, led, now, a, rq, f, o) ==
    IF Served(f) \/ f.site = "grid" THEN o
    ELSE IF f.site = "append"
        THEN IF o.ledger = led THEN o ELSE [RateLimited(o, wb, led) EXCEPT !.cache = o.cache]
    ELSE IF f.site = "readback"
        THEN IF o.ledger = led THEN o
             ELSE [RateLimited(o, wb, Append(led, LockRow(KeyOf(o, rq), a, now)))
                      EXCEPT !.cache = o.cache]
    ELSE IF o.writes = {} THEN o
    ELSE [RateLimited(o, wb, o.ledger) EXCEPT !.cache = o.cache]

QuotaAdd(a, rq, f) ==
    /\ ops < MaxOps
    /\ \E o \in {AddUnderQuota(store, ledger, clock, a, rq, f,
                     handle_add(store, ledger, cache[a], clock, a, a, rq.hint, rq.day, rq.s, rq.e))} :
           /\ store' = o.store
           /\ ledger' = o.ledger
           /\ cache' = [cache EXCEPT ![a] = o.cache]
           /\ last' = [Seen("add", a, rq, o, store, cache[a], ledger) EXCEPT !.fault = f]
           /\ prev' = last
           /\ epoch' = [epoch EXCEPT ![a] = EpochAfter(@, o, BumpsIn(o))]
           /\ metric' = Busted(o)
           /\ day_cache' = [day_cache EXCEPT ![a] = _clear_ws_cache_for_titles(@, "add", o)]
    /\ ops' = ops + 1
    /\ UNCHANGED <<clock, acq, calls, run>>

QuotaRemove(a, rq, f) ==
    /\ ops < MaxOps
    /\ \E o \in {RemoveUnderQuota(store, ledger, clock, a, rq, f,
                     handle_remove(store, ledger, cache[a], clock, a, rq.hint, rq.day, rq.s, rq.e))} :
           /\ store' = o.store
           /\ ledger' = o.ledger
           /\ cache' = [cache EXCEPT ![a] = o.cache]
           /\ last' = [Seen("remove", a, rq, o, store, cache[a], ledger) EXCEPT !.fault = f]
           /\ prev' = last
           /\ epoch' = [epoch EXCEPT ![a] = EpochAfter(@, o, 0)]
           /\ metric' = Busted(o)
           /\ day_cache' = [day_cache EXCEPT ![a] = _clear_ws_cache_for_titles(@, "remove", o)]
    /\ ops' = ops + 1
    /\ UNCHANGED <<clock, acq, calls, run>>

InitQuota == Init /\ store \in {BookEmpty, BookPartial}

NextQuota ==
    \/ \E a \in Actors, rq \in QuotaRequests, f \in Faults : QuotaAdd(a, rq, f)
    \/ \E a \in Actors, rq \in QuotaRequests, f \in Faults : QuotaRemove(a, rq, f)

SpecQuota == InitQuota /\ [][NextQuota]_vars
----------------------------------------------------------------------------
(* Adds on sheets of other shapes: an On-Call tab with a title row above    *)
(* its weekday header and a column that no weekday heads, one whose header  *)
(* row names a single weekday (hours.py 183-210), and UNH tabs on which the *)
(* 9:30 AM band has a single lane, taken, or no lane at all.                *)

BlockRow3(s, e) == <<RangeLabel(s, e), RangeLabel(s, e), "">>

OnCallTitled ==
    <<<<"On-Call Lead", OALabel("Ann"), "">>,
      <<"Monday, 9/8", "Saturday, 9/13", "Backup">>,
      BlockRow3(420, 660),
      <<OALabel("Ann"), OALabel("Ann"), OALabel("Ann")>>,
      <<"", OALabel("Bob"), "">>,
      BlockRow3(660, 960),
      <<"", "", OALabel("Bob")>>,
      <<"", "", "">>,
      BlockRow3(960, 1260)>>

OnCallOneDay ==
    <<<<"Saturday, 9/13", "Notes">>,
      BlockRow(420, 660),
      <<OALabel("Ann"), "">>,
      <<"", "">>,
      BlockRow(660, 960),
      <<OALabel("Bob"), "">>,
      <<OALabel("Ann"), "">>,
      BlockRow(960, 1260)>>

BookTitled == [BookPartial EXCEPT !["ONCALL"] = OnCallTitled]

BookOneDay == [BookPartial EXCEPT !["ONCALL"] = OnCallOneDay]

BookNarrow ==
    [BookEmpty EXCEPT !["UNH"] = CapGrid(<<Blank2, Blank2, Blank2>>, <<<<OALabel("Joann"), "">>>>)]

BookNoLanes == [BookEmpty EXCEPT !["UNH"] = CapGrid(<<Blank2, Blank2, Blank2>>, <<>>)]

ShapeBooks == {BookPartial, BookWeekend, BookTitled, BookOneDay, BookNarrow, BookNoLanes}

ShapeRequests ==
    {Req("unh", "mon", <<540, 570>>), Req("unh", "mon", <<540, 600>>),
     Req("mc", "mon", <<540, 600>>),
     Req("oncall", "mon", <<420, 660>>), Req("oncall", "satur", <<660, 960>>)}

\* a fresh start of two sessions on one of the workbooks B
Started(B) ==
    /\ store \in B
    /\ ledger = <<>>
    /\ clock = 0
    /\ cache = [a \in Actors |-> store]
    /\ last = NoLast
    /\ prev = NoLast
    /\ ops = 0
    /\ acq = [a \in LockActors |-> IdleCall]
    /\ calls = {}
    /\ epoch = [a \in Actors |-> 0]
    /\ day_cache = [a \in Actors |-> NoDayCache]
    /\ metric = [a \in Actors |-> NoMetric]
    /\ run = [a \in Actors |-> NoRun]

InitShapes == Started(ShapeBooks)

NextShapes == \E a \in Actors, rq \in ShapeRequests : HandleAdd(a, rq)

SpecShapes == InitShapes /\ [][NextShapes]_vars

----------------------------------------------------------------------------
(* Requests around midnight (chat_add.py 659-668, chat_remove.py 62-70) on *)
(* capacity tabs whose bands are 11:30 PM and 12:00 AM.                     *)

NightGrid ==
    <<<<"Time", "Monday", "Tuesday", "">>,
      TimeRow(1410), LaneRow("", ""), LaneRow("", ""),
      TimeRow(0), LaneRow("", ""), LaneRow("", ""),
      TimeRow(30)>>

BookNight == [BookEmpty EXCEPT !["UNH"] = NightGrid, !["MC"] = NightGrid]

\* <<start, end>> as typed, in minutes of the day
NightWindows ==
    {<<1410, 30>>, <<1410, 0>>, <<1410, 330>>, <<1410, 360>>, <<600, 540>>,
     <<330, 330>>, <<360, 360>>, <<0, 30>>}

NightRequests ==
    {Req(h, "mon", w) : h \in {"unh", "mc"}, w \in NightWindows}
        \cup {Req("oncall", "mon", <<1410, 30>>)}

InitNight == Started({BookNight})

NextNight ==
    \/ \E a \in Actors, rq \in NightRequests : HandleAdd(a, rq)
    \/ \E a \in Actors, rq \in NightRequests : HandleRemove(a, rq)

SpecNight == InitNight /\ [][NextNight]_vars

----------------------------------------------------------------------------
(* Adds of two sessions on the UNH tab, step by step, for windows that      *)
(* share bands under different lock keys.                                   *)

CapRequests == {Req("unh", "mon", w) : w \in {<<540, 570>>, <<540, 600>>, <<570, 600>>}}

NextCap ==
    \/ \E a \in Actors, rq \in CapRequests : AddBegin(a, rq)
    \/ \E a \in Actors : AddLock(a)
    \/ \E a \in Actors : AddWrite(a)
    \/ Tick

SpecCap == Init /\ [][NextCap]_vars

----------------------------------------------------------------------------
(* The retry wrappers, call by call: locks._retry_429 (lines 9-19) and      *)
(* quotas._safe_batch_get (lines 6-23).  `run` is the wrapper call in       *)
(* progress: the loop index i, the calls made to the store function so far  *)
(* and what the store answered; `clock` counts the time slept, in tenths    *)
(* of a second.                                                             *)

Wrappers == {"_retry_429", "_safe_batch_get"}

\* the store functions handed to the wrappers: locks.py 47, 48 and 69,
\* and ws.batch_get inside _safe_batch_get (quotas.py 13)
WrappedFns(w) ==
    IF w = "_retry_429" THEN {"append_row", "get_all_values", "update"} ELSE {"batch_get"}

E429 == "APIError: [429]: Quota exceeded for quota metric 'Read requests'"

E500 == "APIError: [500]: Internal error encountered."

E503 == "APIError: [503]: The service is currently unavailable."

\* what the store does with one call: it returns, or raises one of these
Answers == {"ok", E429, E500, E503}

\* "429" in s or "quota exceeded" in s (locks.py 15; quotas.py 17 tests
\* the text as raised), on the texts above
IsRateLimit(w, ans) == ans = E429

\* retries: int = 5 (locks.py 9), retries: int = 4 (quotas.py 6)
Retries(w) == IF w = "_retry_429" THEN RETRY_429 ELSE BATCH_GET_RETRIES

\* backoff * (2 ** i) with backoff 0.8 (locks.py 9) and 0.7 (quotas.py 6)
Backoff(w, i) == (IF w = "_retry_429" THEN 8 ELSE 7) * 2 ^ i

\* variant: the loop goes on after any error
RetryAgain_any(w, i, ans) == i < Retries(w) /\ ans # "ok"

\* inside the loop a rate-limit error leads to another attempt
RetryAgain(w, i, ans) == i < Retries(w) /\ IsRateLimit(w, ans)

IdleRetry ==
    [pc |-> "idle", w |-> None, fn |-> None, i |-> 0, tries |-> 0, answers |-> <<>>, cached |-> FALSE]

RetryOver == run.pc \in {"idle", "returned", "raised"}

\* the wrapper is called; _safe_batch_get may find the range in the
\* session's cache
RetryStart(w, fn, cached) ==
    /\ RetryOver
    /\ fn \in WrappedFns(w)
    /\ cached => w = "_safe_batch_get"
    /\ run' = [IdleRetry EXCEPT !.pc = IF cached THEN "returned" ELSE "try",
                                !.w = w, !.fn = fn, !.cached = cached]
    /\ clock' = 0
    /\ UNCHANGED <<store, ledger, cache, last, prev, ops, acq, calls, epoch, day_cache, metric>>

\* fn(*args, **kwargs): in the loop (i < retries) or after it
RetryCall(ans) ==
    /\ run.pc = "try"
    /\ run' = [run EXCEPT !.tries = @ + 1,
                          !.answers = Append(@, ans),
                          !.pc = IF ans = "ok" THEN "returned"
                                 ELSE IF RetryAgain(run.w, run.i, ans) THEN "sleep"
                                 ELSE "raised"]
    /\ UNCHANGED <<store, ledger, clock, cache, last, prev, ops, acq, calls, epoch, day_cache, metric>>

\* _pytime.sleep(backoff * (2 ** i)); continue
RetrySleep ==
    /\ run.pc = "sleep"
    /\ clock' = clock + Backoff(run.w, run.i)
    /\ run' = [run EXCEPT !.i = @ + 1, !.pc = "try"]
    /\ UNCHANGED <<store, ledger, cache, last, prev, ops, acq, calls, epoch, day_cache, metric>>

InitRetry ==
    /\ store = <<>>
    /\ cache = <<>>
    /\ last = None
    /\ prev = None
    /\ ops = 0
    /\ epoch = <<>>
    /\ day_cache = <<>>
    /\ metric = <<>>
    /\ ledger = <<>>
    /\ acq = <<>>
    /\ calls = {}
    /\ clock = 0
    /\ run = IdleRetry

NextRetry ==
    \/ \E w \in Wrappers, fn \in {"append_row", "get_all_values", "update", "batch_get"},
          cached \in BOOLEAN : RetryStart(w, fn, cached)
    \/ \E ans \in Answers : RetryCall(ans)
    \/ RetrySleep

SpecRetry == InitRetry /\ [][NextRetry]_vars

\* every store call returns or raises, and every sleep ends
FairRetry ==
    SpecRetry /\ WF_vars(\E ans \in Answers : RetryCall(ans)) /\ WF_vars(RetrySleep)

----------------------------------------------------------------------------
(* The grid functions on their own: `store` is one grid as read from a     *)
(* tab and `last` the call made last on it with its result.                 *)

MaxGridRows == 3

GridCols == 2

\* a blank, a weekday header, and clock times, one of them in two spellings
GridTexts == {"", "Monday", "9:00 AM", "09:00 AM", "9:30 AM"}

GridRowsOf == [1..GridCols -> GridTexts]

GridsOf == UNION {[1..n -> GridRowsOf] : n \in 1..MaxGridRows}

\* the dict returned by _slot_bands_by_time: label -> (r0, r1)
BandsDict(grid) ==
    [l \in {fmt_time(_parse_time_cell(Cell(grid, r, 0))) : r \in _time_row_indices(grid)}
        |-> _slot_bands_by_time(grid, l)]

FindAnywhere(day) ==
    /\ last' = [fn |-> "_find_day_col_anywhere", day |-> day,
                col |-> _find_day_col_anywhere(store, day)]
    /\ UNCHANGED <<store, ledger, clock, cache, prev, ops, acq, calls, session>>

FindFuzzy(day) ==
    /\ last' = [fn |-> "_find_day_col_fuzzy", day |-> day,
                col |-> _find_day_col_fuzzy(store, day)]
    /\ UNCHANGED <<store, ledger, clock, cache, prev, ops, acq, calls, session>>

SlotBands ==
    /\ last' = [fn |-> "_slot_bands_by_time", bands |-> BandsDict(store)]
    /\ UNCHANGED <<store, ledger, clock, cache, prev, ops, acq, calls, session>>

InitGrids ==
    /\ store \in GridsOf
    /\ last = [fn |-> None]
    /\ cache = <<>>
    /\ prev = None
    /\ ops = 0
    /\ epoch = <<>>
    /\ day_cache = <<>>
    /\ metric = <<>>
    /\ ledger = <<>>
    /\ acq = <<>>
    /\ calls = {}
    /\ clock = 0
    /\ run = <<>>

NextGrids ==
    \/ \E day \in DayNames : FindAnywhere(day)
    \/ \E day \in DayNames : FindFuzzy(day)
    \/ SlotBands

SpecGrids == InitGrids /\ [][NextGrids]_vars

----------------------------------------------------------------------------
(* handle_change with lists of days and times: several pairs in one call   *)

Pair(d, o, n) == [day |-> d, old |-> o, new |-> n]

\* pairs on a capacity tab: a window held or not, and one off the half-hour
CapPairs ==
    {Pair("mon", o, n) : o \in {<<540, 570>>, <<570, 600>>, <<555, 600>>},
                         n \in {<<570, 600>>, <<540, 600>>}}

\* pairs on the On-Call tab
OnCallPairs ==
    {Pair("mon", o, n) : o \in {<<420, 660>>, <<660, 960>>}, n \in {<<660, 960>>, <<420, 660>>}}

PairLists ==
    {<<"unh", <<p, q>>>> : p \in CapPairs, q \in CapPairs}
        \cup {<<"oncall", <<p, q>>>> : p \in OnCallPairs, q \in OnCallPairs}

SumBumps(outs) == IF Len(outs) = 2 THEN outs[1].bumps + outs[2].bumps ELSE outs[1].bumps

\* a change of several pairs
HandleChanges(a, hint, pairs) ==
    /\ ops < MaxOps
    /\ \A i \in 1..Len(pairs) : pairs[i].old # pairs[i].new
    /\ \E outs \in {ChangeLoop(store, ledger, cache[a], clock, a, hint, pairs, 1, <<>>)} :
         \E o \in {outs[Len(outs)]} :
           /\ store' = o.store
           /\ ledger' = o.ledger
           /\ cache' = [cache EXCEPT ![a] = o.cache]
           /\ last' = [op |-> "changes", actor |-> a, hint |-> hint, pairs |-> pairs,
                       result |-> o.result, before |-> store,
                       inner |-> [k \in 1..Len(outs) |-> outs[k].inner]]
           /\ prev' = last
           /\ epoch' = [epoch EXCEPT ![a] = EpochAfter(@, o, SumBumps(outs))]
           /\ metric' = Busted(o)
           /\ day_cache' = [day_cache EXCEPT ![a] =
                               _clear_ws_cache_for_titles(@, "change", outs[1])]
    /\ ops' = ops + 1
    /\ UNCHANGED <<clock, acq, calls, run>>

InitPairs == Started({BookPartial, BookNearCap})

NextPairs ==
    \/ \E a \in Actors, pl \in PairLists : HandleChanges(a, pl[1], pl[2])
    \/ Tick

SpecPairs == InitPairs /\ [][NextPairs]_vars

----------------------------------------------------------------------------
(* Adds on the capacity tabs for a weekday the tab names and for one it     *)
(* does not name                                                            *)

FrameRequests ==
    {Req(h, d, w) : h \in {"unh", "mc"}, d \in {"mon", "sat"},
                    w \in {<<540, 570>>, <<540, 600>>, <<570, 600>>}}

InitFrame == Started({BookEmpty, BookPartial})

NextFrame == \E a \in Actors, rq \in FrameRequests : HandleAdd(a, rq)

SpecFrame == InitFrame /\ [][NextFrame]_vars

----------------------------------------------------------------------------
(* Retrying a lost lock.  Calls of acquire_fcfs_lock are taken one after    *)
(* the other; a call stamps its entry at `clock` (locks.py 46) and reaches  *)
(* its cutoff (line 50) CallSecs later, always sooner than the TTL.  Bob    *)
(* and Cy call at most once each and only before Ann's first call; Ann      *)
(* calls again whenever her last call lost.  `acq` holds how each actor's   *)
(* last call ended and `last` the call made last.                           *)

WaitKey == lock_key(Title("UNH"), "monday", fmt_time(540), fmt_time(570))

WaitOtherKey == lock_key(Title("MC"), "monday", fmt_time(540), fmt_time(570))

\* seconds from the stamp of a call to its cutoff
CallSecs == {15, 45}

WaitOthersUntil == 45

WaitMaxClock == 225

NoCall == [pc |-> "idle"]

NoAcquire == [actor |-> None, key |-> None, ts |-> 0, at |-> 0, vals |-> <<>>, won |-> FALSE]

\* one call: append, read back, cutoff d seconds after the stamp, decide,
\* mark the own row
WaitCall(a, k, d) ==
    /\ clock + d <= WaitMaxClock
    /\ \E vals \in {Append(ledger, LockRow(k, a, clock))} :
           /\ ledger' = LockMark(vals, vals, k, a, clock + d - TTL_SEC)
           /\ last' = [actor |-> a, key |-> k, ts |-> clock, at |-> clock + d, vals |-> vals,
                       won |-> LockIsWinner(vals, k, a, clock + d - TTL_SEC)]
           /\ acq' = [acq EXCEPT ![a] =
                         [pc |-> IF LockIsWinner(vals, k, a, clock + d - TTL_SEC)
                                 THEN "won" ELSE "lost"]]
    /\ clock' = clock + d
    /\ UNCHANGED <<store, cache, prev, ops, calls, session>>

\* Bob or Cy asks for a key, before Ann's first call
WaitOther(a, k, d) ==
    /\ a # "Ann" /\ acq[a].pc = "idle" /\ acq["Ann"].pc = "idle"
    /\ clock <= WaitOthersUntil
    /\ WaitCall(a, k, d)

\* Ann's first call, and her calls after a call that won
WaitFirst(d) ==
    /\ acq["Ann"].pc \in {"idle", "won"}
    /\ WaitCall("Ann", WaitKey, d)

\* Ann's last call lost: she asks again
WaitRetry(d) ==
    /\ acq["Ann"].pc = "lost"
    /\ WaitCall("Ann", WaitKey, d)

\* time passes between calls; a retry follows the lost call at once
WaitTick ==
    /\ acq["Ann"].pc # "lost"
    /\ clock + LockTick <= WaitMaxClock
    /\ clock' = clock + LockTick
    /\ UNCHANGED <<store, ledger, cache, last, prev, ops, acq, calls, session>>

InitWait ==
    /\ store = <<>>
    /\ cache = <<>>
    /\ last = NoAcquire
    /\ prev = None
    /\ ops = 0
    /\ epoch = <<>>
    /\ day_cache = <<>>
    /\ metric = <<>>
    /\ run = <<>>
    /\ ledger = <<>>
    /\ clock = 0
    /\ acq = [a \in LockActors |-> NoCall]
    /\ calls = {}

NextWait ==
    \/ \E a \in LockActors, k \in {WaitKey, WaitOtherKey}, d \in CallSecs : WaitOther(a, k, d)
    \/ \E d \in CallSecs : WaitFirst(d)
    \/ \E d \in CallSecs : WaitRetry(d)
    \/ WaitTick

SpecWait == InitWait /\ [][NextWait]_vars

\* the actor keeps retrying
FairWait == SpecWait /\ WF_vars(\E d \in CallSecs : WaitRetry(d))

----------------------------------------------------------------------------
(* Claims about the lock ledger *)

SameWindow(S) ==
    Max({c.at : c \in S}) - Min({c.ts : c \in S}) <= TTL_SEC

\* C1: for any key, among acquire calls made by distinct actors whose steps
\* all fall within one TTL window, at most one returns won = True,
\* whatever the interleaving of their steps.
C1_MutualExclusion ==
    \A c1 \in calls : \A c2 \in calls :
        (c1.actor # c2.actor /\ c1.key = c2.key /\ SameWindow({c1, c2}))
            => ~(c1.won /\ c2.won)

C2_Pre(c1, c2, c3) ==
    /\ Cardinality({c1.actor, c2.actor, c3.actor}) = 3
    /\ c1.key = c2.key /\ c2.key = c3.key
    /\ c1.ts < c2.ts /\ c2.ts < c3.ts
    /\ SameWindow({c1, c2, c3})
    /\ c2.readLen >= c1.row /\ c3.readLen >= c1.row
    /\ Cardinality({i \in 1..Len(ledger) : ledger[i].key = c1.key}) = 3

\* C2: three acquire calls on one key by three distinct actors, stamped
\* t1 < t2 < t3 within one TTL window, the t2 and t3 calls reading the
\* ledger once t1's entry is in it: the t1 call alone returns won = True.
C2_FirstComeFirstServed ==
    \A c1 \in calls : \A c2 \in calls : \A c3 \in calls :
        C2_Pre(c1, c2, c3) => (c1.won /\ ~c2.won /\ ~c3.won)

C2_Witness ==
    \E c1 \in calls : \E c2 \in calls : \E c3 \in calls :
        C2_Pre(c1, c2, c3) /\ c1.won /\ ~c2.won /\ ~c3.won

----------------------------------------------------------------------------
(* Claims about the handlers.  `last` is the run that ended last, `store`   *)
(* and `ledger` are what it left; `prev` is the run before it.              *)

\* the run got past input validation
Validated(r) == r.result \notin {"boundary", "end_before_start", "bad_day"}

\* an add that got past validation, the weekly and the daily ceiling and
\* the opening of its tab, and so reached the policy of its tab kind
Admitted(r) ==
    r.op = "add" /\ Validated(r) /\ r.result \notin {"weekly", "no_header", "daily"}

\* the minute of the hour is neither 0 nor 30
OffBoundary(rq) == (rq.s % 60) \notin {0, 30} \/ (rq.e % 60) \notin {0, 30}

\* labels of the 30-minute ticks of a request
Ticks(rq) == {fmt_time(rq.s + 30 * k) : k \in {j \in 0..47 : rq.s + 30 * j < rq.e}}

SeqSet(q) == {q[i] : i \in 1..Len(q)}

\* lane rows of the band labelled l
BandLanes(grid, l) == SeqSet(LaneRows(_slot_bands_by_time(grid, l)))

DayColOf(r) == CapacityDayCol(r.before[r.kind], _canon_input_day(r.req.day))

Occupied(grid, c0, l) ==
    Cardinality({rr \in BandLanes(grid, l) : ~_is_blankish(Cell(grid, rr, c0))})

BlankRows(grid, c0, l) == {rr \in BandLanes(grid, l) : _is_blankish(Cell(grid, rr, c0))}

AllPositions(grid) == Positions(Len(grid), NCols(grid))

\* the tab `after` is the tab `before` with text v in the cells W
WrittenExactly(before, after, W, v) ==
    /\ Len(after) = Len(before)
    /\ \A p \in AllPositions(before) :
           Cell(after, p[1], p[2]) = IF p \in W THEN v ELSE Cell(before, p[1], p[2])

\* C3: an add that fails on the weekly ceiling, on the daily ceiling or in
\* the capacity check of its tab has appended no ledger entry and has
\* written no cell.
C3_EarlyFailureLeavesNoTrace ==
    (last.op = "add" /\ last.result \in {"weekly", "daily", "capacity"})
        => (ledger = last.ledger_before /\ store = last.before)

C3_Witness ==
    /\ prev.op = "add" /\ prev.result = "ok" /\ Len(ledger) = 1
    /\ last.op = "add" /\ last.result = "capacity" /\ last.reasons # {}
    /\ ledger = last.ledger_before /\ store = last.before

\* C4: an add or a remove whose start or end is off the half-hour fails
\* with the boundary error on every tab kind and leaves the workbook and
\* the ledger as they were.
C4_OffBoundaryRejected ==
    (last.op \in {"add", "remove"} /\ OffBoundary(last.req))
        => (last.result = "boundary" /\ store = last.before /\ ledger = last.ledger_before)

C4_Witness ==
    /\ prev.op = "add" /\ OffBoundary(prev.req) /\ prev.result = "boundary"
    /\ last.op = "remove" /\ OffBoundary(last.req) /\ last.result = "boundary"
    /\ prev.kind # "ONCALL" /\ last.kind = "ONCALL"
    /\ store = prev.before /\ ledger = <<>>

\* no cell of the workbook holds a name
NoNames(wb) ==
    \A k \in Kinds : \A p \in AllPositions(wb[k]) :
        Cell(wb[k], p[1], p[2]) \notin {OALabel(q) : q \in AllNames}

\* C5: on a grid without names, an add followed at once by the remove of
\* the same person, day and window leaves every cell the add wrote blank
\* again and no other cell changed.
C5_RoundTrip ==
    (/\ prev.op = "add" /\ prev.result = "ok" /\ NoNames(prev.before)
     /\ last.op = "remove" /\ last.actor = prev.actor /\ last.req = prev.req)
        => /\ \A w \in prev.writes : _is_blankish(Cell(store[w[1]], w[2], w[3]))
           /\ \A k \in Kinds : \A p \in AllPositions(store[k]) :
                  <<k, p[1], p[2]>> \notin prev.writes
                      => Cell(store[k], p[1], p[2]) = Cell(prev.before[k], p[1], p[2])

\* lanes of the On-Call block a remove addresses, as its session sees the tab
OnCallLanesSeen(r) ==
    LaneRows(_find_oncall_block_row_bounds(
                 r.view["ONCALL"],
                 OnCallDayCol(r.view["ONCALL"], _canon_input_day(r.req.day)),
                 Strf12(r.req.s), Strf12(r.req.e)))

NobodyInBlock(r) ==
    /\ OnCallLanesSeen(r) # <<>>
    /\ \A rr \in SeqSet(OnCallLanesSeen(r)) :
           ~RemoveMatches(Cell(r.view["ONCALL"], rr,
                               OnCallDayCol(r.view["ONCALL"], _canon_input_day(r.req.day))),
                          r.actor)

\* C6: a remove on a capacity tab completes although some tick holds the
\* person in no lane, and writes nothing in the lanes of such a tick; a
\* remove on the On-Call tab raises when no lane of the matching block
\* holds the person.
C6_TolerantAndStrictRemove ==
    /\ (last.op = "remove" /\ last.kind \in {"UNH", "MC"} /\ last.missed # {})
        => /\ last.result = "ok"
           /\ \A l \in last.missed : \A w \in last.writes :
                  w[2] \notin BandLanes(last.view[last.kind], l)
    /\ (last.op = "remove" /\ last.kind = "ONCALL" /\ Validated(last) /\ NobodyInBlock(last))
        => (last.result \in {"not_found", "lock_lost"} /\ store = last.before)

C6_Witness ==
    /\ prev.op = "remove" /\ prev.kind \in {"UNH", "MC"} /\ prev.missed # {}
    /\ prev.result = "ok" /\ prev.writes = {}
    /\ last.op = "remove" /\ last.kind = "ONCALL" /\ NobodyInBlock(last)
    /\ last.result = "not_found"

\* C7: on the UNH tab, an add that reaches the capacity check is refused
\* with an "at capacity" reason when a band of its window already holds
\* PER_SLOT_CAP occupied lanes in the weekday column; when every band holds
\* fewer and the lock is won, it succeeds and each band holds one occupied
\* lane more (a band with one occupied lane then holds two).
C7_NumericCap ==
    (Admitted(last) /\ last.kind = "UNH") =>
        /\ (\E l \in Ticks(last.req) :
                Occupied(last.before["UNH"], DayColOf(last), l) >= PER_SLOT_CAP)
            => /\ last.result = "capacity"
               /\ last.reasons =
                      {<<l, "at capacity">> : l \in {x \in Ticks(last.req) :
                          Occupied(last.before["UNH"], DayColOf(last), x) >= PER_SLOT_CAP}}
               /\ store = last.before
        /\ ((\A l \in Ticks(last.req) :
                Occupied(last.before["UNH"], DayColOf(last), l) < PER_SLOT_CAP)
            /\ last.result # "lock_lost")
            => /\ last.result = "ok"
               /\ \A l \in Ticks(last.req) :
                      Occupied(store["UNH"], DayColOf(last), l)
                          = Occupied(last.before["UNH"], DayColOf(last), l) + 1

C7_Witness ==
    /\ prev.op = "add" /\ prev.kind = "UNH" /\ prev.result = "ok"
    /\ last.op = "add" /\ last.kind = "UNH" /\ last.result = "capacity"
    /\ last.req = prev.req
    /\ \E l \in Ticks(prev.req) :
           /\ Occupied(prev.before["UNH"], DayColOf(prev), l) = 1
           /\ Occupied(last.before["UNH"], DayColOf(last), l) = 2
           /\ <<l, "at capacity">> \in last.reasons

\* C8: on the MC tab, an add that reaches the capacity check and finds a
\* blank lane in every band of its window succeeds once the lock is won,
\* writing the person into the first blank lane of each band and changing
\* no other cell; when a band has no blank lane it fails with a "no empty
\* cells" reason and writes nothing.
C8_OpenLane ==
    (Admitted(last) /\ last.kind = "MC") =>
        /\ (\E l \in Ticks(last.req) : BlankRows(last.before["MC"], DayColOf(last), l) = {})
            => /\ last.result = "capacity"
               /\ last.reasons =
                      {<<l, "no empty cells">> : l \in {x \in Ticks(last.req) :
                          BlankRows(last.before["MC"], DayColOf(last), x) = {}}}
               /\ last.writes = {}
               /\ store = last.before
        /\ ((\A l \in Ticks(last.req) : BlankRows(last.before["MC"], DayColOf(last), l) # {})
            /\ last.result # "lock_lost")
            => /\ last.result = "ok"
               /\ last.writes =
                      {<<"MC", Min(BlankRows(last.before["MC"], DayColOf(last), l)), DayColOf(last)>> :
                          l \in Ticks(last.req)}
               /\ WrittenExactly(last.before["MC"], store["MC"],
                                 {<<w[2], w[3]>> : w \in last.writes}, OALabel(last.actor))
               /\ store["UNH"] = last.before["UNH"]
               /\ store["ONCALL"] = last.before["ONCALL"]

\* the lanes of the band are [blank, occupied]
BlankThenOccupied(grid, c0, l) ==
    /\ Cardinality(BandLanes(grid, l)) = 2
    /\ _is_blankish(Cell(grid, Min(BandLanes(grid, l)), c0))
    /\ ~_is_blankish(Cell(grid, Max(BandLanes(grid, l)), c0))

C8_Witness ==
    /\ prev.op = "add" /\ prev.kind = "MC" /\ prev.result = "ok"
    /\ Cardinality(Ticks(prev.req)) = 1
    /\ \A l \in Ticks(prev.req) : BlankThenOccupied(prev.before["MC"], DayColOf(prev), l)
    /\ last.op = "add" /\ last.kind = "MC" /\ last.req = prev.req
    /\ last.actor # prev.actor
    /\ last.result = "capacity"
    /\ last.reasons = {<<l, "no empty cells">> : l \in Ticks(last.req)}
    /\ store = last.before

OnCallColOf(r) == OnCallDayCol(r.before["ONCALL"], _canon_input_day(r.req.day))

\* label rows of the column whose range is exactly the requested window
ExactBlocks(r) ==
    {b \in 0..(Len(r.before["ONCALL"]) - 1) :
        _RANGE_RE(Cell(r.before["ONCALL"], b, OnCallColOf(r))) = <<r.req.s, r.req.e>>}

\* row rr lies under label row b, before the next label row of the column
UnderBlock(r, b, rr) ==
    /\ rr > b
    /\ \A x \in (b + 1)..rr : ~IsRange(Cell(r.before["ONCALL"], x, OnCallColOf(r)))

\* C9: an add that reaches the On-Call policy succeeds only if a block of
\* the weekday column is labelled with exactly the requested start and end
\* and has a blankish lane, into which the person is written; a window
\* that is the label of no block fails and writes no cell.
C9_ExclusiveBlock ==
    (Admitted(last) /\ last.kind = "ONCALL") =>
        /\ last.result = "ok"
            => \E b \in ExactBlocks(last) : \E rr \in 0..(Len(store["ONCALL"]) - 1) :
                   /\ UnderBlock(last, b, rr)
                   /\ _is_blankish(Cell(last.before["ONCALL"], rr, OnCallColOf(last)))
                   /\ last.writes = {<<"ONCALL", rr, OnCallColOf(last)>>}
                   /\ WrittenExactly(last.before["ONCALL"], store["ONCALL"],
                                     {<<rr, OnCallColOf(last)>>}, OALabel(last.actor))
        /\ ExactBlocks(last) = {}
            => (last.result = "capacity" /\ last.writes = {} /\ store = last.before)

\* the window lies inside a block of the column without being one
SubWindow(r) ==
    /\ ExactBlocks(r) = {}
    /\ \E b \in 0..(Len(r.before["ONCALL"]) - 1) :
           /\ IsRange(Cell(r.before["ONCALL"], b, OnCallColOf(r)))
           /\ _RANGE_RE(Cell(r.before["ONCALL"], b, OnCallColOf(r)))[1] <= r.req.s
           /\ r.req.e <= _RANGE_RE(Cell(r.before["ONCALL"], b, OnCallColOf(r)))[2]

C9_Witness ==
    /\ prev.op = "add" /\ prev.kind = "ONCALL" /\ prev.result = "ok"
    /\ ExactBlocks(prev) # {}
    /\ last.op = "add" /\ last.kind = "ONCALL" /\ Admitted(last) /\ SubWindow(last)
    /\ last.result = "capacity" /\ store = last.before

\* C10 as stated: with 19.5 h committed a request for 1 h succeeds and the
\* person lands at 20.0 h.
C10_AsStated ==
    (last.op = "add" /\ Validated(last) /\ last.week = 1170 /\ last.minutes = 60)
        => /\ last.result = "ok"
           /\ total_hours_from_unh_mc_and_neighbor(store, last.actor) = WEEK_CAP_MIN

\* C10: a validated add is refused on the weekly ceiling exactly when the
\* hours committed plus the hours requested exceed 20, with the message
\* "More than 20 hours" citing both, and nothing changes; so with 19.5 h
\* committed 1 h is refused, 0.5 h on a capacity tab is not and lands the
\* person at exactly 20.0 h, after which every request is refused.
C10_WeeklyCeiling ==
    (last.op = "add" /\ Validated(last)) =>
        /\ last.week = total_hours_from_unh_mc_and_neighbor(last.before, last.actor)
        /\ last.week + last.minutes > WEEK_CAP_MIN
            => /\ last.result = "weekly"
               /\ last.reasons = {<<"", WeeklyMessage(last.week, last.minutes)>>}
               /\ store = last.before
        /\ (last.week = 1170 /\ last.minutes = 60)
            => last.reasons = {<<"", "More than 20 hours: have 19.5h; request 1.0h.">>}
        /\ last.week + last.minutes <= WEEK_CAP_MIN => last.result # "weekly"
        /\ (last.result = "ok" /\ last.kind \in {"UNH", "MC"})
            => total_hours_from_unh_mc_and_neighbor(store, last.actor)
                   = last.week + last.minutes

C10_Witness ==
    /\ prev.op = "add" /\ prev.week = 1170 /\ prev.minutes = 30 /\ prev.result = "ok"
    /\ last.op = "add" /\ last.actor = prev.actor
    /\ last.week = WEEK_CAP_MIN /\ last.minutes > 0
    /\ last.result = "weekly"
    /\ last.reasons = {<<"", "More than 20 hours: have 20.0h; request 0.5h.">>}

\* C11: when the aggregator's total of a person is at most 20 h before an
\* add, it is still at most 20 h after the add succeeded, on every tab.
C11_WeeklyCeilingKept ==
    (/\ last.op = "add" /\ last.result = "ok"
     /\ total_hours_from_unh_mc_and_neighbor(last.before, last.actor) <= WEEK_CAP_MIN)
        => total_hours_from_unh_mc_and_neighbor(store, last.actor) <= WEEK_CAP_MIN

\* no cell holds another name that contains the person's name
NoNamesake(wb, name) ==
    \A k \in Kinds : \A p \in AllPositions(wb[k]) :
        \A q \in AllNames \ {name} :
            <<name, q>> \in SubstrLower => Cell(wb[k], p[1], p[2]) # OALabel(q)

\* the column of a capacity tab headed by the weekday, Nil when the tab has
\* no column for it
HeadedCol(grid, day) ==
    MinOr({c \in 1..(NCols(grid) - 1) : _canon_day_loose(Cell(grid, 0, c)) = day}, Nil)

\* minutes of the bands of a capacity tab in which a lane of the day's
\* column holds the person
BandMinutes(grid, day, name) ==
    IF HeadedCol(grid, day) = Nil THEN 0
    ELSE 30 * Cardinality({r0 \in _time_row_indices(grid) :
                  \E rr \in BandLanes(grid, Cell(grid, r0, 0)) :
                      Cell(grid, rr, HeadedCol(grid, day)) = OALabel(name)})

\* label rows of the day's On-Call column with the person in a lane below
BlocksHeld(grid, c, name) ==
    {b \in 1..(Len(grid) - 1) :
        /\ IsRange(Cell(grid, b, c))
        /\ \E rr \in (b + 1)..(Len(grid) - 1) :
               /\ \A x \in (b + 1)..rr : ~IsRange(Cell(grid, x, c))
               /\ Cell(grid, rr, c) = OALabel(name)}

BlockMinutes(grid, day, name) ==
    SumOver([b \in BlocksHeld(grid, OnCallDayCol(grid, day), name) |->
                 _RANGE_RE(Cell(grid, b, OnCallDayCol(grid, day)))[2]
                     - _RANGE_RE(Cell(grid, b, OnCallDayCol(grid, day)))[1]],
            BlocksHeld(grid, OnCallDayCol(grid, day), name))

\* minutes the person holds on the day across the three tabs
CommittedToday(wb, name, day) ==
    BandMinutes(wb["UNH"], day, name) + BandMinutes(wb["MC"], day, name)
        + BlockMinutes(wb["ONCALL"], day, name)

C12_Rejected ==
    /\ prev.op = "add" /\ prev.result = "daily" /\ store = prev.before
    /\ CommittedToday(prev.before, prev.actor, _canon_input_day(prev.req.day))
           + prev.minutes > DAY_CAP_MIN
    /\ last.op = "add" /\ last.result = "daily" /\ last.actor # prev.actor
    /\ ledger = <<>>

Held(grid, c, rows, name) ==
    Cardinality({rr \in rows : Cell(grid, rr, c) = OALabel(name)})

\* rows under the label rows of the old window of a change
OldBlockRows(r) ==
    {rr \in 0..(Len(r.before["ONCALL"]) - 1) : \E b \in ExactBlocks(r) : UnderBlock(r, b, rr)}

\* the person holds the old window in as many lanes as before the change
OldWindowAsBefore(r) ==
    IF r.kind = "ONCALL"
    THEN Held(store["ONCALL"], OnCallColOf(r), OldBlockRows(r), r.actor)
             = Held(r.before["ONCALL"], OnCallColOf(r), OldBlockRows(r), r.actor)
    ELSE \A l \in Ticks(r.req) :
             Held(store[r.kind], DayColOf(r), BandLanes(r.before[r.kind], l), r.actor)
                 = Held(r.before[r.kind], DayColOf(r), BandLanes(r.before[r.kind], l), r.actor)

\* the person held every band of the old window before the change
HeldOldWindow(r) ==
    IF r.kind = "ONCALL"
    THEN Held(r.before["ONCALL"], OnCallColOf(r), OldBlockRows(r), r.actor) > 0
    ELSE \A l \in Ticks(r.req) :
             Held(r.before[r.kind], DayColOf(r), BandLanes(r.before[r.kind], l), r.actor) > 0

\* every cell that held another person holds the same text
OthersUntouched(r) ==
    \A k \in Kinds : \A p \in AllPositions(r.before[k]) :
        Cell(r.before[k], p[1], p[2]) \in {OALabel(q) : q \in AllNames \ {r.actor}}
            => Cell(store[k], p[1], p[2]) = Cell(r.before[k], p[1], p[2])

\* C13: when a change has removed the old window and the add of the new
\* window fails, the old window is added again; if that add succeeds the
\* change still raises, reporting the restored shift, and the person then
\* holds every band of the old window in as many lanes as before the
\* change, with no other person's cell changed.
C13_ChangeCompensation ==
    (last.op = "change" /\ last.inner.remove = "ok" /\ last.inner.add # "ok"
         /\ HeldOldWindow(last)) =>
        /\ last.inner.rollback # None
        /\ last.inner.rollback = "ok" =>
               /\ last.result = "restored"
               /\ OldWindowAsBefore(last)
               /\ OthersUntouched(last)

\* C14: when the add of the new window and the add of the old window both
\* fail, the change raises the error that names both failures, which is
\* not the error of a restored shift, and does not return its summary.
C14_DualFailureRaised ==
    (last.op = "change" /\ last.inner.add \notin {None, "ok"}
         /\ last.inner.rollback \notin {None, "ok"}) =>
        /\ last.result = "dual"
        /\ last.inner.message
               = "Add failed and rollback also failed - schedule may be inconsistent."
        /\ last.inner.add_err # <<>>
        /\ last.inner.rollback_err # <<>>
        /\ epoch = [epoch EXCEPT ![last.actor] = last.epoch_before]

C14_Witness ==
    /\ last.op = "change" /\ last.inner.remove = "ok"
    /\ last.inner.add \notin {None, "ok"}
    /\ last.inner.rollback \notin {None, "ok"}
    /\ last.result = "dual"

C13_Restored ==
    /\ last.op = "change" /\ last.inner.remove = "ok"
    /\ last.inner.add \notin {None, "ok"}
    /\ last.inner.rollback = "ok"

\* C18: the hours epoch of a session never decreases, and every add,
\* remove or change the application reports as successful leaves the
\* epoch of its session strictly greater than it was before the operation.
C18_EpochMonotone ==
    [][/\ \A a \in Actors : epoch'[a] >= epoch[a]
       /\ (ops' = ops + 1 /\ last'.result = "ok")
              => /\ last'.op \in {"add", "remove", "change"}
                 /\ last'.epoch_before = epoch[last'.actor]
                 /\ epoch'[last'.actor] > epoch[last'.actor]]_vars

C18_Witness ==
    /\ prev.op \in {"add", "remove"} /\ prev.result = "ok"
    /\ last.op = "change" /\ last.result = "ok" /\ last.actor = prev.actor
    /\ epoch[last.actor] > last.epoch_before
    /\ last.epoch_before > prev.epoch_before

\* the metric computed for the session from the workbook as it is
HoursInStore(a) ==
    compute_hours_fast([k \in {"UNH", "MC"} |-> store[k]], store, a)

\* the session's metric was computed after its last, successful, mutation
RenderedAfterMutation(a) ==
    /\ last.op \in {"add", "remove", "change"} /\ last.result = "ok" /\ last.actor = a
    /\ metric[a].epoch = epoch[a]
    /\ metric[a].seq = ops

\* C19: the first computation of the metric after a successful mutation
\* and its epoch bump, in the same session, returns the person's hours as
\* they are in the workbook after the mutation.
C19_MetricFresh ==
    \A a \in Actors : RenderedAfterMutation(a) => metric[a].hours = HoursInStore(a)

C19_Rendered ==
    \E a \in Actors : RenderedAfterMutation(a) /\ last.writes # {}

\* C20: the metric compute_hours_fast returns is never above 20 h.
C20_MetricCapped ==
    \A a \in Actors : metric[a].epoch # Nil => metric[a].hours <= WEEK_CAP_MIN

\* the last handler run reached the write step of a step-by-step add
WroteAfterLock == last.op = "add" /\ last.locked # <<>> /\ last.result # "lock_lost"

\* C15: the grid an add uses after it won the lock, to resolve the weekday
\* column and to test the lanes, was read from the workbook after the lock
\* was acquired: each of its cells holds what the workbook held when the
\* lock was acquired or holds at the write, so what another session wrote
\* between the capacity check and the lock is seen.
C15_GridReadAfterLock ==
    WroteAfterLock =>
        \A p \in AllPositions(last.before[last.kind]) :
            Cell(last.view[last.kind], p[1], p[2])
                \in {Cell(last.locked[last.kind], p[1], p[2]),
                     Cell(last.before[last.kind], p[1], p[2])}

\* C16: an add writes only into cells that are blankish in the workbook at
\* the moment of the write, whatever another session's add did in between,
\* so no assignment written by one add is overwritten by another.
C16_NoLostUpdate ==
    WroteAfterLock =>
        \A w \in last.writes : _is_blankish(Cell(last.before[w[1]], w[2], w[3]))

\* two adds of different sessions on one tab and day, under different lock
\* keys, both wrote
C16_BothWrote ==
    /\ WroteAfterLock /\ last.result = "ok"
    /\ prev.op = "add" /\ prev.locked # <<>> /\ prev.result = "ok"
    /\ prev.actor # last.actor /\ prev.kind = last.kind /\ prev.req # last.req

\* C17: an add or remove fails with the store's rate-limit error only
\* after the rejected call was retried: one rate-limit error, at a grid
\* read, at the ledger append or read-back or at a cell write, does not
\* fail the operation.
C17_RetriedBeforeFailing ==
    (last.op \in {"add", "remove"} /\ last.result = "rate_limited") => last.fault.n > 1

\* a ledger call rejected as often as it is tried fails the operation
C17_Exhausted ==
    /\ last.op = "add" /\ last.result = "rate_limited"
    /\ last.fault.site = "append" /\ last.fault.n = RETRY_429 + 1

\* a ledger call rejected five times goes through
C17_Absorbed ==
    /\ last.op = "add" /\ last.result = "ok"
    /\ last.fault.site = "readback" /\ last.fault.n = RETRY_429

----------------------------------------------------------------------------
(* Weekly total, ledger, routing and retries *)

\* mentions of the person in the On-Call grid, and the header row the
\* aggregator resolves (Nil if none)
WeekendCol(grid, hr, c) == _normalize_day(Cell(grid, hr, c)) \in {"saturday", "sunday"}

HalfHours(wb, name) ==
    30 * (Cardinality(Mentions(wb["UNH"], name)) + Cardinality(Mentions(wb["MC"], name)))

\* 5 h per mention without a header row; with one, 4 h per mention of the
\* set M in a weekend column and 5 h per mention of M in any other column
FixedBlockHours(grid, hr, all, M) ==
    IF hr = Nil THEN WEEKDAY_WEIGHT_MIN * Cardinality(all)
    ELSE WEEKEND_WEIGHT_MIN * Cardinality({p \in M : WeekendCol(grid, hr, p[2])})
             + WEEKDAY_WEIGHT_MIN * Cardinality({p \in M : ~WeekendCol(grid, hr, p[2])})

BelowHeader(hr, M) == {p \in M : p[1] > hr}

TotalTaken == last.op = "add" /\ TotalCalled("add", last)

C21_NoHeader ==
    /\ TotalTaken
    /\ _find_header_row_with_days(last.before["ONCALL"]) = Nil
    /\ last.week > HalfHours(last.before, last.actor)

\* rows of the ledger that carry the key and the actor
RowsOf(led, key, actor) == {i \in 1..Len(led) : led[i].key = key /\ led[i].actor = actor}

\* the actors whose acquire call takes the step from pc `from`
Stepping(from) == {a \in LockActors : acq[a].pc = from /\ acq'[a].pc # from}

StatusChanged == {i \in 1..Len(ledger) : ledger'[i].status # ledger[i].status}

\* C22: the ledger is append-only.  Every step keeps each existing entry in
\* its row with its key, actor and timestamp; the ledger grows by one entry
\* (key, actor, timestamp, "pending") exactly at the append of an acquire
\* call, once per call; and a status changes only in the deciding caller's
\* own highest row for the key of the call.
C22_AppendOnly ==
    [][/\ Len(ledger') >= Len(ledger)
       /\ \A i \in 1..Len(ledger) :
              /\ ledger'[i].key = ledger[i].key
              /\ ledger'[i].actor = ledger[i].actor
              /\ ledger'[i].ts = ledger[i].ts
       /\ \A a \in Stepping("stamped") :
              /\ ledger' = Append(ledger, [key |-> acq[a].key, actor |-> a,
                                           ts |-> acq[a].now, status |-> "pending"])
              /\ acq'[a].pc = "appended"
       /\ Len(ledger') # Len(ledger) => Stepping("stamped") # {}
       /\ \A a \in LockActors : acq[a].pc \in {"idle", "appended", "read"}
              => (acq'[a].pc # acq[a].pc => Len(ledger') = Len(ledger))
       /\ \A i \in StatusChanged :
              \E a \in Stepping("read") :
                  /\ acq'[a].pc = "idle"
                  /\ i = Max(RowsOf(ledger, acq[a].key, a))]_vars

\* an actor's second call on a key was decided beside another actor's
\* entry: its later row carries the verdict, three entries are in the ledger
C22_Witness ==
    /\ Len(ledger) = 3
    /\ \E c \in calls : \E d \in calls :
           /\ c.actor = d.actor /\ c.key = d.key /\ c.row < d.row
           /\ ledger[d.row].status \in {"won", "lost"}
           /\ RowsOf(ledger, d.key, d.actor) = {c.row, d.row}
    /\ \E i \in 1..3 : ledger[i].status = "lost"
    /\ Cardinality(calls) = 3

\* rows of the read-back of a finished call that took part in its
\* arbitration: the call's key, not older than its cutoff (by C22 the rows
\* 1..readLen of the ledger are the rows the call read)
ClaimsRead(c) ==
    {i \in 1..c.readLen : ledger[i].key = c.key /\ ledger[i].ts >= c.at - TTL_SEC}

\* those among them with the least timestamp
Earliest(c) == {i \in ClaimsRead(c) : \A j \in ClaimsRead(c) : ledger[i].ts <= ledger[j].ts}

\* C23: when the unexpired entries for the key that a call reads back hold
\* two or more with the same, least, timestamp, the winner is the one of
\* them in the lowest ledger row, and the call returns won = True exactly
\* when the caller is that entry's actor.
C23_TieBreak ==
    \A c \in calls :
        Cardinality(Earliest(c)) >= 2
            => /\ c.winner_row = Min(Earliest(c)) + 1
               /\ c.won <=> (ledger[Min(Earliest(c))].actor = c.actor)

\* two calls stamped at the same instant on one key, each deciding on a
\* read-back with both entries: the one appended first won, the other lost
C23_Witness ==
    \E c \in calls : \E d \in calls :
        /\ c.key = d.key /\ c.ts = d.ts /\ c.actor # d.actor /\ c.row < d.row
        /\ Earliest(c) = {c.row, d.row} /\ Earliest(d) = {c.row, d.row}
        /\ c.won /\ ~d.won
        /\ ledger[c.row].status = "won" /\ ledger[d.row].status = "lost"

\* at the cutoff of call c the entry in row i is older than the TTL
Expired(c, i) == ledger[i].ts < c.at - TTL_SEC

\* entries of other actors in the read-back of call c
Others(c) == {i \in 1..c.readLen : ledger[i].actor # c.actor}

\* every entry of another actor is for another key or expired
OutOfPlay(c) == \A i \in Others(c) : ledger[i].key # c.key \/ Expired(c, i)

\* C24 (as stated): an actor whose only competing entries for the key are
\* expired wins
C24_AsStated ==
    \A c \in calls :
        (OutOfPlay(c) /\ \E i \in Others(c) : ledger[i].key = c.key) => c.won

\* C24 (as amended): an entry older than the TTL at the call's cutoff, and
\* an entry for another key, is never the winner and does not change the
\* verdict; a caller whose competitors' entries are all expired or for
\* other keys wins if its own entry is not older than the TTL, and gets
\* (False, -1) if it is; every entry read stays in the ledger.
C24_Expiry ==
    \A c \in calls :
        /\ c.readLen <= Len(ledger)
        /\ c.winner_row # Nil => (c.winner_row - 1) \in ClaimsRead(c)
        /\ c.won <=> (ClaimsRead(c) # {} /\ ledger[Min(Earliest(c))].actor = c.actor)
        /\ OutOfPlay(c) => IF Expired(c, c.row) THEN ~c.won /\ c.winner_row = Nil ELSE c.won

\* a call won although an earlier entry of another actor for the same key,
\* by then expired, and an entry for another key were in its read-back;
\* all three entries are in the ledger
C24_Witness ==
    \E c \in calls :
        /\ c.won /\ Len(ledger) = 3
        /\ \E i \in Others(c) : ledger[i].key = c.key /\ Expired(c, i) /\ i < c.row
        /\ \E i \in Others(c) : ledger[i].key # c.key

\* an entry exactly one TTL old still takes part
C24_AtTheLimit ==
    \E c \in calls :
        /\ ~c.won
        /\ \E i \in Others(c) : ledger[i].key = c.key /\ ledger[i].ts = c.at - TTL_SEC
                                    /\ c.winner_row = i + 1

\* the lock key of an add: the tab it settled on, the canonical day, and
\* fmt_time of the start and of the end as rolled
KeyOfRun(r) ==
    lock_key(Title(r.kind), _canon_input_day(r.req.day), fmt_time(r.req.s),
             fmt_time(RollEnd(r.req.s, r.req.e)))

\* the run appended one ledger entry: its own, for its key
TookLock(r) ==
    /\ Len(ledger) = Len(r.ledger_before) + 1
    /\ \A i \in 1..Len(r.ledger_before) :
           /\ ledger[i].key = r.ledger_before[i].key
           /\ ledger[i].actor = r.ledger_before[i].actor
           /\ ledger[i].ts = r.ledger_before[i].ts
    /\ ledger[Len(ledger)].key = KeyOfRun(r)
    /\ ledger[Len(ledger)].actor = r.actor
    /\ ledger[Len(ledger)].ts <= clock

\* entries for the key of the run that were unexpired when it stamped its own
Contenders(r) ==
    {i \in 1..Len(ledger) : /\ ledger[i].key = KeyOfRun(r)
                            /\ ledger[i].ts >= ledger[Len(ledger)].ts - TTL_SEC}

\* the first in ledger order among the earliest contenders is the actor's
FirstIsOwn(r) ==
    /\ Contenders(r) # {}
    /\ ledger[Min({i \in Contenders(r) :
                      \A j \in Contenders(r) : ledger[i].ts <= ledger[j].ts})].actor = r.actor

\* C25: an add that wrote a cell, on a capacity tab or on the On-Call tab,
\* had before appended its ledger entry for the key of (target tab title,
\* canonical day, formatted start, formatted end) and had won the
\* arbitration; an add whose acquire call lost fails with the message that
\* another request claimed the window and writes no cell.
C25_WriteOnlyUnderLock ==
    last.op = "add" =>
        /\ (last.writes # {} \/ store # last.before)
               => /\ TookLock(last) /\ FirstIsOwn(last)
                  /\ ledger[Len(ledger)].status = "won"
        /\ (TookLock(last) /\ ~FirstIsOwn(last))
               => /\ last.result = "lock_lost"
                  /\ last.writes = {} /\ store = last.before
                  /\ ledger[Len(ledger)].status = "lost"
        /\ last.result = "lock_lost" => (TookLock(last) /\ ~FirstIsOwn(last))

\* an add that won the lock and wrote, then an add by another actor for the
\* same window that lost the lock and wrote nothing
C25_Witness ==
    /\ prev.op = "add" /\ prev.result = "ok" /\ prev.writes # {}
    /\ last.op = "add" /\ last.result = "lock_lost" /\ last.actor # prev.actor
    /\ Len(ledger) = 2 /\ ledger[1].status = "won" /\ ledger[2].status = "lost"
    /\ ledger[1].key = ledger[2].key
    /\ store = last.before

\* an On-Call add that won the lock and wrote
C25_OnCallWrote ==
    /\ last.op = "add" /\ last.kind = "ONCALL" /\ last.writes # {}
    /\ ledger[Len(ledger)].status = "won"

\* the add failed in its write loop
FailedWriting(r) ==
    /\ r.op = "add" /\ r.kind # "ONCALL"
    /\ r.result \in {"write_full", "just_reached_capacity", "slot_missing", "no_lanes"}

\* start minutes of the ticks of the request, in order
TicksOf(r) == _range_to_slots(r.req.s, RollEnd(r.req.s, r.req.e))

\* the band of tick i cannot take the person on the grid as it was: band
\* missing, no lane rows, cap reached (UNH) or no blank lane
Unwritable(r, i) ==
    \E b \in {_slot_bands_by_time(r.before[r.kind], fmt_time(TicksOf(r)[i]))} :
        \/ b[1] = Nil
        \/ LaneRows(b) = <<>>
        \/ r.kind = "UNH" /\ FilledCount(r.before[r.kind], LaneRows(b), DayColOf(r)) >= PER_SLOT_CAP
        \/ BlankLanes(r.before[r.kind], LaneRows(b), DayColOf(r)) = {}

\* the first blankish lane of the band of tick i, in the weekday column
FirstBlankOf(r, i) ==
    <<r.kind, Min(BlankRows(r.before[r.kind], DayColOf(r), fmt_time(TicksOf(r)[i]))), DayColOf(r)>>

\* C26: a capacity-tab add that fails in its write loop at a later band
\* (no blank lane, cap reached, band missing or no lane rows) has written
\* the first blank lane of every band before that one, and those cells hold
\* the person's entry when the add has failed; nothing else changed.
C26_PartialWriteStays ==
    FailedWriting(last) =>
        \E k \in 1..Len(TicksOf(last)) :
            /\ Unwritable(last, k)
            /\ \A i \in 1..(k - 1) : ~Unwritable(last, i)
            /\ last.writes = {FirstBlankOf(last, i) : i \in 1..(k - 1)}
            /\ WrittenExactly(last.before[last.kind], store[last.kind],
                              {<<w[2], w[3]>> : w \in last.writes}, OALabel(last.actor))
            /\ \A t \in Kinds \ {last.kind} : store[t] = last.before[t]

\* a two-band add failed at its second band for want of a blank lane; the
\* cell of the first band holds the person's entry
C26_Witness ==
    /\ FailedWriting(last) /\ last.result = "write_full"
    /\ Len(TicksOf(last)) = 2 /\ Cardinality(last.writes) = 1
    /\ \E w \in last.writes :
           /\ Cell(store[last.kind], w[2], w[3]) = OALabel(last.actor)
           /\ Cell(last.before[last.kind], w[2], w[3]) = ""
    /\ ledger[Len(ledger)].status = "won"

\* the same with a second band that has no lane rows
C26_NoLaneRows ==
    /\ FailedWriting(last) /\ last.result = "no_lanes" /\ Cardinality(last.writes) = 1
    /\ \E w \in last.writes : Cell(store[last.kind], w[2], w[3]) = OALabel(last.actor)

\* the end as typed is not after the start
NotAfter(rq) == rq.e <= rq.s

\* the clock hour of the end as typed is 0..5
EarlyHour(rq) == (rq.e \div 60) \in 0..5

\* length of the window, the end taken on the next day when not after the start
Span(rq) == IF NotAfter(rq) THEN rq.e + 1440 - rq.s ELSE rq.e - rq.s

SpanLabels(rq) == {fmt_time(rq.s + 30 * k) : k \in 0..((Span(rq) \div 30) - 1)}

\* tick labels a capacity-tab remove went through: those without a match
\* and those of the bands in which it cleared a lane
TicksDone(r) ==
    r.missed \cup {l \in {fmt_time(m) : m \in ClockMinutes} :
                      \E w \in r.writes : w[2] \in BandLanes(r.view[r.kind], l)}

\* C27: an add or remove on half-hour boundaries whose end is not after its
\* start fails with "End time must be after start time" exactly when the
\* end's clock hour is not in 0..5, leaving workbook and ledger untouched;
\* otherwise the end is taken on the next day, so the window runs from the
\* start to that end; an end after the start is taken as typed.
C27_OvernightRoll ==
    (last.op \in {"add", "remove"} /\ ~OffBoundary(last.req)) =>
        /\ last.result = "end_before_start" <=> (NotAfter(last.req) /\ ~EarlyHour(last.req))
        /\ last.result = "end_before_start"
               => (store = last.before /\ ledger = last.ledger_before)
        /\ (last.op = "add" /\ last.result # "end_before_start")
               => last.minutes = Span(last.req)
        /\ (last.op = "remove" /\ last.result = "ok" /\ last.kind # "ONCALL")
               => TicksDone(last) = SpanLabels(last.req)

\* 11:30 PM - 12:30 AM added, through both bands, and then removed
C27_Witness ==
    /\ prev.op = "add" /\ prev.result = "ok" /\ NotAfter(prev.req) /\ EarlyHour(prev.req)
    /\ prev.minutes = 60 /\ Cardinality(prev.writes) = 2
    /\ last.op = "remove" /\ last.result = "ok" /\ last.req = prev.req
    /\ Cardinality(last.writes) = 2

\* an end at 6:00 AM, not after the start, is refused in add and in remove
C27_Refused ==
    /\ prev.op = "add" /\ prev.result = "end_before_start" /\ prev.req.e = 360
    /\ last.op = "remove" /\ last.result = "end_before_start" /\ last.req.e = 360

\* start and end both 5:30 AM: taken as a window of 24 hours
C27_FullDay ==
    /\ last.op = "add" /\ last.req.s = 330 /\ last.req.e = 330 /\ last.minutes = 1440
    /\ last.result = "weekly"

\* an add aimed at the On-Call tab that got as far as the routing
AimedAtOnCall(r) ==
    /\ r.op = "add" /\ _resolve_campus_title(r.req.hint) = "ONCALL"
    /\ Validated(r) /\ r.result # "weekly"

\* C28: an add aimed at the On-Call tab and shorter than 3 hours runs on
\* the UNH tab: its lock key carries the UNH title, it is refused when a
\* band of its window holds 2 occupied lanes in the weekday column and
\* otherwise fills one more lane per band, and it leaves the On-Call tab
\* (and MC) as they were.  One of 3 hours or more stays on the On-Call tab
\* and leaves UNH and MC as they were.
C28_AutoReroute ==
    AimedAtOnCall(last) =>
        IF Span(last.req) < 180
        THEN /\ last.kind = "UNH"
             /\ store["ONCALL"] = last.before["ONCALL"] /\ store["MC"] = last.before["MC"]
             /\ \A w \in last.writes : w[1] = "UNH"
             /\ Admitted(last) =>
                    /\ last.result = "capacity"
                           <=> \E l \in Ticks(last.req) :
                                   Occupied(last.before["UNH"], DayColOf(last), l) >= 2
                    /\ last.result \in {"capacity", "lock_lost", "ok"}
                    /\ last.result # "capacity" => TookLock(last)
                    /\ last.result = "ok" =>
                           \A l \in Ticks(last.req) :
                               Occupied(store["UNH"], DayColOf(last), l)
                                   = Occupied(last.before["UNH"], DayColOf(last), l) + 1
        ELSE /\ last.kind = "ONCALL"
             /\ store["UNH"] = last.before["UNH"] /\ store["MC"] = last.before["MC"]
             /\ \A w \in last.writes : w[1] = "ONCALL"

\* a half-hour add aimed at the On-Call tab was written on the UNH tab,
\* into a band that held one occupied lane
C28_Witness ==
    /\ AimedAtOnCall(last) /\ Span(last.req) = 30
    /\ last.result = "ok" /\ last.kind = "UNH"
    /\ \E w \in last.writes : w[1] = "UNH" /\ Cell(store["UNH"], w[2], w[3]) = OALabel(last.actor)
    /\ \E l \in Ticks(last.req) : Occupied(last.before["UNH"], DayColOf(last), l) = 1
    /\ store["ONCALL"] = last.before["ONCALL"]

\* the same request refused on the UNH tab, whose band holds two
C28_Refused ==
    /\ AimedAtOnCall(last) /\ Span(last.req) = 30 /\ last.result = "capacity"
    /\ <<fmt_time(last.req.s), "at capacity">> \in last.reasons

\* a request of exactly 3 hours stays on the On-Call tab; so does one of 4
\* hours, which is written there
C28_ThreeHoursStay ==
    /\ AimedAtOnCall(prev) /\ Span(prev.req) = 180 /\ prev.kind = "ONCALL"
    /\ AimedAtOnCall(last) /\ Span(last.req) = 240 /\ last.result = "ok"
    /\ \E w \in last.writes : w[1] = "ONCALL"

\* weekday columns and band labels of the UNH tab
UnhDayCols == {c \in 0..(NCols(store["UNH"]) - 1) : _canon_day_loose(Cell(store["UNH"], 0, c)) # None}

UnhLabels ==
    {Cell(store["UNH"], r, 0) : r \in _time_row_indices(store["UNH"])}

\* C29: on the UNH tab no band holds more than 2 occupied lanes in any
\* weekday column, whatever the order and the interleaving of the steps of
\* the sessions' adds.
C29_SlotCapKept ==
    \A c \in UnhDayCols : \A l \in UnhLabels : Occupied(store["UNH"], c, l) <= 2

\* two sessions passed the capacity check on a band holding one occupied
\* lane before either wrote, both adds ended well, and the band holds two
C29_Witness ==
    /\ prev.op = "add" /\ prev.result = "ok" /\ prev.kind = "UNH"
    /\ last.op = "add" /\ last.result = "ok" /\ last.kind = "UNH"
    /\ last.actor # prev.actor
    /\ \E l \in Ticks(last.req) \cap Ticks(prev.req) :
           /\ Occupied(prev.before["UNH"], DayColOf(prev), l) = 1
           /\ Occupied(last.view["UNH"], DayColOf(last), l) = 1
           /\ Occupied(last.before["UNH"], DayColOf(last), l) = 2
           /\ Occupied(store["UNH"], DayColOf(last), l) = 2

\* a band at the cap: an add that reads it so is refused
C29_Refused ==
    /\ last.op = "add" /\ last.kind = "UNH" /\ last.result = "capacity"
    /\ prev.op = "add" /\ prev.result = "ok" /\ prev.actor # last.actor
    /\ \E l \in Ticks(last.req) : Occupied(store["UNH"], DayColOf(last), l) = 2

\* the wrapper call has made no more than retries + 1 calls of the store
\* function; every answer but the last was a rate-limit error; a call that
\* returned got the function's result from its last call (or from the
\* cache, without any call); a call that raised got an error from its last
\* call, which was either no rate-limit error or the call after the loop
RetryBounded ==
    /\ run.tries = Len(run.answers)
    /\ run.tries <= Retries(run.w) + 1
    /\ run.w = "_retry_429" => run.tries <= 6
    /\ \A k \in 1..(run.tries - 1) : run.answers[k] = E429
    /\ run.pc = "returned" =>
           IF run.cached THEN run.tries = 0 ELSE run.answers[run.tries] = "ok"
    /\ run.pc = "raised" =>
           /\ run.answers[run.tries] # "ok"
           /\ run.answers[run.tries] = E429 => run.tries = Retries(run.w) + 1
    /\ run.pc \in {"try", "sleep"} => run.tries <= Retries(run.w)
    /\ run.pc = "sleep" => run.answers[run.tries] = E429

\* C30: a call of _retry_429 (and of _safe_batch_get) makes at most
\* retries + 1 calls of the store function, 6 (5) by default, goes on to
\* another attempt only after a rate-limit error, raises any other error
\* from the attempt that met it, and ends, returning the function's result
\* or raising.
C30_BoundedRetry ==
    /\ []RetryBounded
    /\ (run.pc \in {"try", "sleep"}) ~> (run.pc \in {"returned", "raised"})

\* _retry_429 returned from its sixth call after five rate-limit errors
C30_Witness ==
    /\ run.w = "_retry_429" /\ run.pc = "returned" /\ run.tries = 6
    /\ \A k \in 1..5 : run.answers[k] = E429
    /\ clock = 8 * 31

\* six rate-limit errors: the sixth is raised
C30_Exhausted ==
    /\ run.w = "_retry_429" /\ run.pc = "raised" /\ run.tries = 6 /\ run.answers[6] = E429

\* a server error at the third call is raised from that call
C30_RaisedAtOnce ==
    /\ run.w = "_retry_429" /\ run.pc = "raised" /\ run.tries = 3 /\ run.answers[3] = E503

----------------------------------------------------------------------------
(* Claims C31 - C40 *)

\* the weekdays read anywhere in the grid
DaysFound(grid) ==
    {d \in DayNames : \E p \in AllPositions(grid) : DayLike(Cell(grid, p[1], p[2])) = d}

\* column c holds the first cell, row by row, that reads as weekday d
FirstHitIn(grid, d, c) ==
    \E p \in AllPositions(grid) :
        /\ p[2] = c /\ DayLike(Cell(grid, p[1], p[2])) = d
        /\ \A q \in AllPositions(grid) :
               DayLike(Cell(grid, q[1], q[2])) = d => Before(p, q)

\* C31: when _find_day_col_anywhere does not find the target weekday and
\* finds exactly one other weekday, it returns the column of that weekday's
\* first cell; when it finds none or two or more others, it returns None.
C31_SingleCandidate ==
    (last.fn = "_find_day_col_anywhere" /\ last.day \notin DaysFound(store))
        => IF Cardinality(DaysFound(store)) = 1
           THEN \E d \in DaysFound(store) : FirstHitIn(store, d, last.col)
           ELSE last.col = Nil

\* monday is asked for, the grid reads only as saturday (a clock time), in
\* column 1, and that column is returned
C31_Witness ==
    /\ last.fn = "_find_day_col_anywhere" /\ last.day = "monday"
    /\ DaysFound(store) = {"saturday"} /\ last.col = 1

\* tuesday is asked for, monday and saturday are found: None
C31_TwoOthers ==
    /\ last.fn = "_find_day_col_anywhere" /\ last.day = "tuesday"
    /\ DaysFound(store) = {"monday", "saturday"} /\ last.col = Nil

\* nothing is found at all: None
C31_NoneFound ==
    /\ last.fn = "_find_day_col_anywhere" /\ DaysFound(store) = {} /\ last.col = Nil

\* number of cells of column c that hold the weekday's name or abbreviation
TokenCount(grid, c, day) ==
    Cardinality({r \in 0..(Len(grid) - 1) : _normalize_day(Cell(grid, r, c)) = day})

\* columns with the highest count, given that some cell holds the weekday
TopCols(grid, day) ==
    {c \in 0..(NCols(grid) - 1) :
        /\ TokenCount(grid, c, day) > 0
        /\ \A x \in 0..(NCols(grid) - 1) : TokenCount(grid, c, day) >= TokenCount(grid, x, day)}

\* C32: _find_day_col_fuzzy returns the column with the highest count of
\* cells holding the target weekday's name or abbreviation, and of several
\* columns with the highest count the one with the lowest index.
C32_FuzzyFrequency ==
    last.fn = "_find_day_col_fuzzy" =>
        last.col = MinOr(TopCols(store, last.day), Nil)

\* what the code keeps: the result is one of the columns with the highest
\* count, the one whose first matching cell comes first row by row
C32_FirstSeenAmongTop ==
    last.fn = "_find_day_col_fuzzy" =>
        IF TopCols(store, last.day) = {} THEN last.col = Nil
        ELSE /\ last.col \in TopCols(store, last.day)
             /\ \E r \in 0..(Len(store) - 1) :
                    /\ _normalize_day(Cell(store, r, last.col)) = last.day
                    /\ \A c \in TopCols(store, last.day), q \in 0..(Len(store) - 1) :
                           _normalize_day(Cell(store, q, c)) = last.day
                               => Before(<<r, last.col>>, <<q, c>>)

\* two columns with one matching cell each, the higher column's cell in
\* the upper row: the higher column is returned
C32_TieGoesToFirstSeen ==
    /\ last.fn = "_find_day_col_fuzzy" /\ last.day = "monday"
    /\ TopCols(store, "monday") = {0, 1} /\ last.col = 1

\* a column with two matching cells wins over a column with one
C32_HighestCount ==
    /\ last.fn = "_find_day_col_fuzzy" /\ last.day = "monday"
    /\ TokenCount(store, 0, "monday") = 1 /\ TokenCount(store, 1, "monday") = 2
    /\ Cell(store, 0, 0) = "Monday" /\ last.col = 1

\* the labels whose band holds row r
BandsOver(bands, r) == {l \in DOMAIN bands : bands[l][1] <= r /\ r < bands[l][2]}

\* the clock time of a time-label row
ClockOf(grid, r) == _parse_time_cell(Cell(grid, r, 0))

\* the bands cover each row from the first time-label row on exactly once,
\* and each time-label row starts a band that ends at the next time-label
\* row or at the row count
Partitioned(grid, bands) ==
    /\ \A r \in 0..(Len(grid) - 1) :
           (\E t \in _time_row_indices(grid) : t <= r)
               => Cardinality(BandsOver(bands, r)) = 1
    /\ \A t \in _time_row_indices(grid) :
           \E l \in DOMAIN bands :
               bands[l] = <<t, MinOr({x \in _time_row_indices(grid) : x > t}, Len(grid))>>

\* C33: for every grid the bands of _slot_bands_by_time cover every row
\* from the first time-label row to the last row exactly once, each band
\* running from its label row to the next label row or the row count, also
\* when two label rows carry the same clock time.
C33_BandPartition ==
    last.fn = "_slot_bands_by_time" => Partitioned(store, last.bands)

\* what the code keeps: the partition, on grids whose time-label rows
\* carry different clock times
C33_DistinctTimes ==
    (/\ last.fn = "_slot_bands_by_time"
     /\ \A t, u \in _time_row_indices(store) : ClockOf(store, t) = ClockOf(store, u) => t = u)
        => Partitioned(store, last.bands)

\* two bands, 9:00 AM over rows 0-1 and 9:30 AM over row 2
C33_TwoBands ==
    /\ last.fn = "_slot_bands_by_time"
    /\ DOMAIN last.bands = {"9:00 AM", "9:30 AM"}
    /\ last.bands["9:00 AM"] = <<0, 2>> /\ last.bands["9:30 AM"] = <<2, 3>>

\* two rows labelled 9:00: one band, row 0 in no band
C33_SameTimeTwice ==
    /\ last.fn = "_slot_bands_by_time"
    /\ Cell(store, 0, 0) = "9:00 AM" /\ Cell(store, 1, 0) = "09:00 AM"
    /\ DOMAIN last.bands = {"9:00 AM"} /\ BandsOver(last.bands, 0) = {}

\* the text a remove read in the cell it then blanked
ReadAt(r, w) == Cell(r.view[w[1]], w[2], w[3])

\* C34: on a capacity tab handle_remove blanks only lanes whose cell text
\* is exactly "OA: <name>" for the target person, so never the cell of a
\* different person whose name contains the target's name; on the On-Call
\* tab it blanks the lanes that hold the name as a case-insensitive
\* substring.
C34_NameMatchOnRemove ==
    last.op = "remove" =>
        \A w \in last.writes :
            IF last.kind = "ONCALL" THEN RemoveMatches(ReadAt(last, w), last.actor)
            ELSE ReadAt(last, w) = OALabel(last.actor)

\* what the code keeps, the On-Call half: every lane of the block that
\* holds the name as a substring is blanked, and no other cell
C34_OnCallSubstring ==
    (last.op = "remove" /\ last.kind = "ONCALL") =>
        \A w \in last.writes : RemoveMatches(ReadAt(last, w), last.actor)

\* Ann's remove on the On-Call tab blanked the lane of Joann
C34_OnCallNamesake ==
    /\ last.op = "remove" /\ last.kind = "ONCALL" /\ last.actor = "Ann" /\ last.result = "ok"
    /\ \E w \in last.writes : ReadAt(last, w) = OALabel("Joann") /\ Cell(store[w[1]], w[2], w[3]) = ""

\* Ann's remove on a capacity tab matched the lane of Joann in the Monday
\* column, blanked the cell to its right and reported success
C34_CapacityNamesake ==
    /\ last.op = "remove" /\ last.kind = "UNH" /\ last.actor = "Ann" /\ last.result = "ok"
    /\ \E w \in last.writes :
           /\ Cell(last.view[w[1]], w[2], w[3] - 1) = OALabel("Joann")
           /\ Cell(store[w[1]], w[2], w[3] - 1) = OALabel("Joann")
           /\ ReadAt(last, w) = ""

\* the change call ran the pairs 1..n of its lists, where n is the first
\* pair that raised, or the last pair
PairsRun(r) == 1..Len(r.inner)

\* C35: handle_change runs the remove of the old window before the add of
\* the new one for each pair: an add is only tried after the pair's remove
\* returned; and once a remove raises, no add, of the new window or of the
\* old one, is tried for that pair, and no later pair is started.
C35_RemoveBeforeAdd ==
    last.op = "changes" =>
        /\ \A k \in PairsRun(last) :
               /\ last.inner[k].remove # None
               /\ last.inner[k].add # None => last.inner[k].remove = "ok"
               /\ last.inner[k].rollback # None => last.inner[k].add \notin {None, "ok"}
               /\ last.inner[k].remove # "ok" =>
                      /\ last.inner[k].add = None /\ last.inner[k].rollback = None
                      /\ k = Len(last.inner)
                      /\ last.result = last.inner[k].remove
        /\ \A k \in PairsRun(last) : k < Len(last.inner) => last.inner[k].add = "ok"

\* the first pair was changed, the remove of the second raised: no add for
\* the second pair, and the first pair's change stays in the workbook
C35_Witness ==
    /\ last.op = "changes" /\ Len(last.inner) = 2
    /\ last.inner[1].remove = "ok" /\ last.inner[1].add = "ok"
    /\ last.inner[2].remove \notin {None, "ok"} /\ last.inner[2].add = None
    /\ store # last.before

\* the remove of the first pair raised: the call ended there
C35_FirstRaised ==
    /\ last.op = "changes" /\ Len(last.inner) = 1 /\ last.inner[1].remove \notin {None, "ok"}
    /\ last.inner[1].add = None /\ store = last.before

\* both pairs changed
C35_BothChanged ==
    /\ last.op = "changes" /\ Len(last.inner) = 2 /\ last.result = "ok"
    /\ last.inner[2].remove = "ok" /\ last.inner[2].add = "ok"

\* C36: an actor whose acquire on a key returned won = False and who keeps
\* calling acquire on that key, while no other actor appends an entry for
\* the key, gets won = True in the end, once the entries of the others are
\* older than the TTL.
C36_RetrySucceeds ==
    (acq["Ann"].pc = "lost") ~> (acq["Ann"].pc = "won")

\* Ann's call won although the ledger holds an earlier entry of another
\* actor for the key, expired by now, and entries of her own that lost
C36_Witness ==
    /\ acq["Ann"].pc = "won" /\ last.actor = "Ann" /\ last.won
    /\ \E i \in 1..Len(ledger) :
           ledger[i].actor # "Ann" /\ ledger[i].key = WaitKey /\ ledger[i].ts < last.at - TTL_SEC
    /\ \E i \in 1..Len(ledger) : ledger[i].actor = "Ann" /\ ledger[i].status = "lost"

\* Ann's call lost
C36_Lost == acq["Ann"].pc = "lost" /\ last.actor = "Ann" /\ ~last.won

\* the row of the entry that decides call c: the lowest row among the
\* earliest unexpired entries for the key that the call read back
Deciding(c) == Min(Earliest(c))

\* the call that appended the entry of row w ended before call c began
EndedBefore(w, c) == \E d \in calls : d.row = w /\ d.at < c.ts

\* C37: no entry is released and no status is consulted: a call loses
\* whenever the earliest unexpired entry for its key is another actor's,
\* be that entry's call still under way or ended, won or lost.
C37_NeverReleased ==
    \A c \in calls :
        (Earliest(c) # {} /\ ledger[Deciding(c)].actor # c.actor) => ~c.won

\* a call lost to the entry of a call that had won and ended before
C37_Witness ==
    \E c \in calls :
        /\ Earliest(c) # {} /\ ledger[Deciding(c)].actor # c.actor /\ ~c.won
        /\ EndedBefore(Deciding(c), c) /\ ledger[Deciding(c)].status = "won"

\* a call lost to the entry of a call that had itself lost and ended before
C37_LostToLoser ==
    \E c \in calls :
        /\ Earliest(c) # {} /\ ledger[Deciding(c)].actor # c.actor /\ ~c.won
        /\ EndedBefore(Deciding(c), c) /\ ledger[Deciding(c)].status = "lost"

\* a call lost to the entry of a call still under way
C37_LostToPending ==
    \E c \in calls :
        /\ Earliest(c) # {} /\ ledger[Deciding(c)].actor # c.actor /\ ~c.won
        /\ \E a \in LockActors : acq[a].pc \in {"appended", "read"} /\ acq[a].row = Deciding(c)
        /\ ledger[Deciding(c)].status = "pending"

\* call c is a later call of the actor of call d on d's key
Again(d, c) == d.actor = c.actor /\ d.key = c.key /\ d.at <= c.ts

\* won = True exactly when the earliest unexpired entry is the caller's
ByActorEquality(c) ==
    c.won <=> (Earliest(c) # {} /\ ledger[Deciding(c)].actor = c.actor)

CameEarlier(d, c) ==
    {i \in (d.readLen + 1)..c.readLen :
        /\ ledger[i].key = c.key /\ ledger[i].actor # c.actor
        /\ ledger[i].ts < ledger[Deciding(d)].ts}

C39_RemoveUnderLock ==
    (last.op = "remove" /\ last.writes # {}) => (TookLock(last) /\ FirstIsOwn(last))

\* what the code keeps, the On-Call half: a remove on the On-Call tab
\* writes only after its own entry won, and one whose call lost writes
\* nothing
C39_OnCallUnderLock ==
    (last.op = "remove" /\ last.kind = "ONCALL") =>
        /\ last.writes # {} => (TookLock(last) /\ FirstIsOwn(last))
        /\ (TookLock(last) /\ ~FirstIsOwn(last))
               => (last.result = "lock_lost" /\ last.writes = {} /\ store = last.before)

\* a remove on the On-Call tab blanked a lane under a won lock
C39_OnCallLocked ==
    /\ last.op = "remove" /\ last.kind = "ONCALL" /\ last.writes # {}
    /\ TookLock(last) /\ ledger[Len(ledger)].status = "won"

\* a remove on the On-Call tab lost the lock to another actor's entry
C39_OnCallLost ==
    /\ last.op = "remove" /\ last.kind = "ONCALL" /\ last.result = "lock_lost"
    /\ TookLock(last) /\ ~FirstIsOwn(last)

\* a remove on a capacity tab wrote a cell and the ledger has no entry
C39_CapacityNoLock ==
    /\ last.op = "remove" /\ last.kind \in {"UNH", "MC"} /\ last.writes # {}
    /\ ledger = last.ledger_before /\ ledger = <<>>

\* the cells of tab k a run wrote, as <<row, column>>
WritesOn(r, k) == {<<w[2], w[3]>> : w \in {x \in r.writes : x[1] = k}}

\* C40: a successful add on a capacity tab for a window of n ticks writes
\* exactly n cells, one per band of the window, each in a lane row strictly
\* between the band's label row and the next label row, in the weekday's
\* column, with the text "OA: <person>"; it writes no other cell, and none
\* in the time-label column or in the header row.
C40_AddFrame ==
    (last.op = "add" /\ last.result = "ok" /\ last.kind \in {"UNH", "MC"}) =>
        /\ Cardinality(last.writes) = Cardinality(Ticks(last.req))
        /\ \A l \in Ticks(last.req) :
               Cardinality({w \in last.writes :
                               w[2] \in BandLanes(last.before[last.kind], l)}) = 1
        /\ \A w \in last.writes :
               /\ w[1] = last.kind /\ w[3] = DayColOf(last)
               /\ w[3] # 0 /\ w[2] # 0
               /\ _parse_time_cell(Cell(last.before[last.kind], w[2], 0)) = Nil
        /\ WrittenExactly(last.before[last.kind], store[last.kind],
                          WritesOn(last, last.kind), OALabel(last.actor))
        /\ \A k \in Kinds \ {last.kind} : store[k] = last.before[k]

\* what the code keeps: the frame, for a weekday that heads a column
C40_NamedDay ==
    (/\ last.op = "add" /\ last.result = "ok" /\ last.kind \in {"UNH", "MC"}
     /\ _header_day_cols(last.before[last.kind])[_canon_input_day(last.req.day)] # Nil)
        => /\ Cardinality(last.writes) = Cardinality(Ticks(last.req))
           /\ \A l \in Ticks(last.req) :
                  Cardinality({w \in last.writes :
                                  w[2] \in BandLanes(last.before[last.kind], l)}) = 1
           /\ \A w \in last.writes :
                  /\ w[1] = last.kind /\ w[3] = DayColOf(last)
                  /\ w[3] # 0 /\ w[2] # 0
                  /\ _parse_time_cell(Cell(last.before[last.kind], w[2], 0)) = Nil
           /\ WrittenExactly(last.before[last.kind], store[last.kind],
                             WritesOn(last, last.kind), OALabel(last.actor))
           /\ \A k \in Kinds \ {last.kind} : store[k] = last.before[k]

\* an add over two bands wrote two cells of the Monday column
C40_TwoBands ==
    /\ last.op = "add" /\ last.result = "ok" /\ last.kind = "UNH" /\ last.req.day = "mon"
    /\ Cardinality(last.writes) = 2 /\ \A w \in last.writes : w[3] = 1

\* an add for Saturday on a tab that names Monday and Tuesday wrote into
\* the time-label column
C40_TimeColumn ==
    /\ last.op = "add" /\ last.result = "ok" /\ last.req.day = "sat"
    /\ \E w \in last.writes : w[3] = 0 /\ Cell(store[w[1]], w[2], 0) = OALabel(last.actor)

====
